---- MODULE Spec2Model ----
(***************************************************************************)
(* Better-Perplexity: the per-user Thompson-sampling bandit                *)
(* (server/src/ranker/bandit.ts), the event store that owns one bandit per *)
(* user (server/src/events/store.ts) and the routes that drive them        *)
(* (routes/answer.ts, routes/events.ts, routes/preferences.ts).            *)
(*                                                                         *)
(* Arm statistics are real numbers in the code; here they are exact        *)
(* rationals written as integer multiples of 1/Unit.                       *)
(***************************************************************************)
EXTENDS Integers, Sequences, FiniteSets, TLC

VARIABLES
    now,          \* Date.now(), in ms
    bandit,       \* SpecBandit: one ThompsonSamplingBandit used directly
    userBandits,  \* store.ts: userId -> ThompsonSamplingBandit
    eventLog,     \* store.ts: UserEvent[]
    requests,     \* POST /api/answer requests in arrival order: user and position
    ledger,       \* history: what happened to every impression shown
    scenario,     \* history: progress of the record/click/resolve scenario
    nops,         \* history: number of steps taken so far
    last,         \* SpecBandit: the last call, its inputs and what it returned
    stream,       \* SpecAnswer: one POST /api/answer handler and its SSE stream
    search,       \* SpecSearch: one executeParallelSearch call
    plan,         \* SpecPlan: one createQueryPlan call
    synth,        \* SpecSynth: one synthesizeAnswer call
    retry         \* SpecRetry: one withRetry call

\* The bandit, the store and the requests that use them
store == <<now, bandit, userBandits, eventLog, requests, ledger, scenario, nops, last>>

\* The stages of the answer pipeline taken one call at a time
pipeline == <<stream, search, plan, synth, retry>>

vars == <<now, bandit, userBandits, eventLog, requests, ledger, scenario, nops, last,
          stream, search, plan, synth, retry>>

----------------------------------------------------------------------------
(* Bounds of the model *)

MaxTicks == 1         \* clock steps taken while the routes run
MaxBanditTicks == 1  \* clock steps taken while the bandit is used directly
MaxOps == 4          \* mutating calls on the directly used bandit
MaxPending == 2      \* pending impressions held by the directly used bandit
MaxEvents == 2        \* events held by the log
MaxSteps == 5         \* handler runs and clock steps of the routes
MaxRequests == 2     \* answer requests issued
MaxChunks == 2       \* chunks of one streamed completion
MaxSubQueries == 3   \* sub-queries of one executeParallelSearch call
MaxLLMSubQueries == 6 \* sub-queries in one answer of the planning LLM
MaxDeltas == 3       \* deltas of one streamed completion of the synthesis
MaxBatchQueries == 6 \* sub-queries of a search that needs more than one batch

(* Program constants *)

RouteTimeoutMs == 25000     \* answer.ts: bandit.resolvePendingImpressions(25000)
DefaultTimeoutMs == 25000   \* bandit.ts: timeoutMs: number = 25000
TopShown == 8               \* answer.ts: rankedDocs.slice(0, 8)
TopPreferences == 5         \* preferences.ts: .slice(0, 5)
MaxAttempts == 3            \* llm.ts: withRetry(fn, maxAttempts = 3)
MAX_CONCURRENT_SEARCHES == 5 \* parallelSearch.ts: batch size
MAX_RESULTS_PER_QUERY == 10 \* parallelSearch.ts: maxResults of every provider call
MinResults == 5             \* parallelSearch.ts: filtered.length >= 5, finalResults.length < 5
MaxReturned == 20           \* parallelSearch.ts: .slice(0, 20)
BoostWeight == 3            \* personalize.ts: boost * 0.3, in tenths
MaxMultiplier == 13         \* personalize.ts: Math.min(..., 1.3), in tenths
MinSubQueries == 2          \* plan.ts: SubQueriesSchema .min(2)
MaxPlanSubQueries == 5      \* plan.ts: SubQueriesSchema .max(5), slice(0, 5); contracts: .max(5)
MinPlanSubQueries == 1      \* contracts: QueryPlanSchema subQueries .min(1)

\* One clock step: the route's timeout, so that an impression is either
\* younger than the timeout or has reached it.
TickMs == RouteTimeoutMs

\* Denominator of the arm statistics: 1/n is exact for n in {1, 2, 3, 5, 6}.
Unit == 2 * 3 * 5

Undefined == "undefined"

Min(a, b) == IF a <= b THEN a ELSE b

RECURSIVE GCD(_, _)
GCD(a, b) == IF b = 0 THEN a ELSE GCD(b, a % b)

\* The real number n/d, in lowest terms, so that equal numbers are equal values.
Ratio(n, d) == <<n \div GCD(n, d), d \div GCD(n, d)>>

\* x > y for two ratios
RatioGreater(x, y) == x[1] * y[2] > y[1] * x[2]

Range(s) == {s[i] : i \in DOMAIN s}

----------------------------------------------------------------------------
(* ThompsonSamplingBandit *)

\* new ThompsonSamplingBandit(): arms is a Map (kept in insertion order),
\* pendingImpressions an array.
NewBandit == [arms |-> <<>>, pendingImpressions |-> <<>>]

HasArm(arms, arm) == \E i \in DOMAIN arms : arms[i].arm = arm

ensureArm(arms, arm) ==
    IF HasArm(arms, arm)
    THEN arms
    ELSE Append(arms, [arm |-> arm, successes |-> 0, failures |-> 0])

getArmStats(b, arm) ==
    IF HasArm(b.arms, arm)
    THEN LET i == CHOOSE i \in DOMAIN b.arms : b.arms[i].arm = arm
         IN [successes |-> b.arms[i].successes, failures |-> b.arms[i].failures]
    ELSE Undefined

getAllArms(b) == [i \in DOMAIN b.arms |-> b.arms[i].arm]

\* const fraction = 1 / arms.length  (in units of 1/Unit)
Fraction(n) == IF n = 0 THEN 0 ELSE Unit \div n

\* stats.successes += fraction
AddSuccess(arms, arm, fraction) ==
    [i \in DOMAIN arms |->
        IF arms[i].arm = arm
        THEN [arms[i] EXCEPT !.successes = @ + fraction]
        ELSE arms[i]]

\* stats.failures += fraction
AddFailure(arms, arm, fraction) ==
    [i \in DOMAIN arms |->
        IF arms[i].arm = arm
        THEN [arms[i] EXCEPT !.failures = @ + fraction]
        ELSE arms[i]]

\* for (const arm of arms) { ensureArm(arm); stats.successes += fraction }
RECURSIVE CreditSuccesses(_, _, _)
CreditSuccesses(arms, list, fraction) ==
    IF list = <<>>
    THEN arms
    ELSE CreditSuccesses(AddSuccess(ensureArm(arms, Head(list)), Head(list), fraction),
                         Tail(list), fraction)

\* for (const arm of pending.arms) { ensureArm(arm); stats.failures += fraction }
RECURSIVE CreditFailures(_, _, _)
CreditFailures(arms, list, fraction) ==
    IF list = <<>>
    THEN arms
    ELSE CreditFailures(AddFailure(ensureArm(arms, Head(list)), Head(list), fraction),
                        Tail(list), fraction)

recordPendingImpression(b, arms, queryId, sourceId, t) ==
    [b EXCEPT !.pendingImpressions =
        Append(@, [arms |-> arms, timestamp |-> t,
                   queryId |-> queryId, sourceId |-> sourceId])]

\* arms1.length === arms2.length && arms1.every(arm => arms2.includes(arm))
armsMatch(arms1, arms2) ==
    /\ Len(arms1) = Len(arms2)
    /\ \A i \in DOMAIN arms1 : arms1[i] \in Range(arms2)

\* if (sourceId): undefined and the empty string are falsy
Truthy(sourceId) == sourceId \notin {Undefined, ""}

\* The filter with the `removed` flag: drop the first entry whose arms match.
RECURSIVE RemoveFirstMatching(_, _)
RemoveFirstMatching(pending, arms) ==
    IF pending = <<>>
    THEN <<>>
    ELSE IF armsMatch(Head(pending).arms, arms)
         THEN Tail(pending)
         ELSE <<Head(pending)>> \o RemoveFirstMatching(Tail(pending), arms)

\* Variant: the sourceId is ignored and the entry is looked up by its arms.
RemovePendingByArmsOnly(pending, arms, sourceId) ==
    IF Truthy(sourceId)
    THEN pending
    ELSE RemoveFirstMatching(pending, arms)

RemovePending(pending, arms, sourceId) ==
    IF Truthy(sourceId)
    THEN SelectSeq(pending, LAMBDA p : p.sourceId # sourceId)
    ELSE RemoveFirstMatching(pending, arms)

\* Variant: a whole success per arm, as the class did before fractional credit.
recordClickWholeCredit(b, arms, sourceId) ==
    [arms |-> CreditSuccesses(b.arms, arms, Unit),
     pendingImpressions |-> RemovePending(b.pendingImpressions, arms, sourceId)]

\* Variant: a click turns an earlier failure into the success.
recordClickConverting(b, arms, sourceId) ==
    [arms |-> CreditFailures(CreditSuccesses(b.arms, arms, Fraction(Len(arms))),
                             arms, 0 - Fraction(Len(arms))),
     pendingImpressions |-> RemovePending(b.pendingImpressions, arms, sourceId)]

recordClick(b, arms, sourceId) ==
    [arms |-> CreditSuccesses(b.arms, arms, Fraction(Len(arms))),
     pendingImpressions |-> RemovePending(b.pendingImpressions, arms, sourceId)]

\* if (age >= timeoutMs) toResolve.push(pending) else stillPending.push(pending)
\* Variant: strictly older than the timeout.
TimedOutStrictly(p, timeoutMs, t) == t - p.timestamp > timeoutMs

TimedOut(p, timeoutMs, t) == t - p.timestamp >= timeoutMs

toResolve(pending, timeoutMs, t) ==
    SelectSeq(pending, LAMBDA p : TimedOut(p, timeoutMs, t))

stillPending(pending, timeoutMs, t) ==
    SelectSeq(pending, LAMBDA p : ~TimedOut(p, timeoutMs, t))

RECURSIVE ResolveAsFailures(_, _)
ResolveAsFailures(arms, resolved) ==
    IF resolved = <<>>
    THEN arms
    ELSE ResolveAsFailures(
            CreditFailures(arms, Head(resolved).arms, Fraction(Len(Head(resolved).arms))),
            Tail(resolved))

resolvePendingImpressions(b, timeoutMs, t) ==
    [arms |-> ResolveAsFailures(b.arms, toResolve(b.pendingImpressions, timeoutMs, t)),
     pendingImpressions |-> stillPending(b.pendingImpressions, timeoutMs, t)]

\* return alpha / (alpha + beta)
\* Variant: the observed rate, without the uniform prior.
sampleBetaNoPrior(alpha, beta) == Ratio(alpha - Unit, alpha + beta - 2 * Unit)

sampleBeta(alpha, beta) == Ratio(alpha, alpha + beta)

\* alpha = successes + 1, beta = failures + 1; one entry per tracked arm, in
\* the Map's order.
getArmScores(b) ==
    [i \in DOMAIN b.arms |->
        [arm |-> b.arms[i].arm,
         score |-> sampleBeta(b.arms[i].successes + Unit, b.arms[i].failures + Unit)]]

\* Array.prototype.sort((a, b) => b[1] - a[1]): stable, descending by score.
RECURSIVE InsertByScore(_, _)
InsertByScore(sorted, e) ==
    IF sorted = <<>>
    THEN <<e>>
    ELSE IF RatioGreater(e.score, Head(sorted).score)
         THEN <<e>> \o sorted
         ELSE <<Head(sorted)>> \o InsertByScore(Tail(sorted), e)

RECURSIVE SortByScore(_)
SortByScore(entries) ==
    IF entries = <<>>
    THEN <<>>
    ELSE InsertByScore(SortByScore(SubSeq(entries, 1, Len(entries) - 1)),
                       entries[Len(entries)])

Slice(s, k) == SubSeq(s, 1, Min(k, Len(s)))

getTopArms(b, k) ==
    LET top == Slice(SortByScore(getArmScores(b)), k)
    IN [i \in DOMAIN top |-> top[i].arm]

----------------------------------------------------------------------------
(* featureExtractor.ts, bandit.ts: content features and their arms *)

\* ContentFeaturesSchema: the closed vocabulary of the five dimensions.
ContentFeaturesSchema ==
    [depth    |-> {"introductory", "intermediate", "expert"},
     style    |-> {"academic", "technical", "journalistic", "conversational"},
     format   |-> {"tutorial", "research", "opinion", "reference"},
     approach |-> {"conceptual", "practical", "data-driven"},
     density  |-> {"concise", "moderate", "comprehensive"}]

\* The 17 arm identifiers dimension:value of the vocabulary.
ArmVocabulary ==
    UNION { {d \o ":" \o v : v \in ContentFeaturesSchema[d]} :
                d \in DOMAIN ContentFeaturesSchema }

\* `depth:${features.depth}`, ...: a field that is missing prints "undefined".
featuresToArms(features) ==
    << "depth:" \o features.depth,
       "style:" \o features.style,
       "format:" \o features.format,
       "approach:" \o features.approach,
       "density:" \o features.density >>

ExpertFeatures ==
    [depth |-> "expert", style |-> "technical", format |-> "tutorial",
     approach |-> "practical", density |-> "moderate"]

IntroFeatures ==
    [depth |-> "introductory", style |-> "conversational", format |-> "reference",
     approach |-> "conceptual", density |-> "concise"]

\* featureExtractor.ts: the neutral features returned when tagging fails
DEFAULT_FEATURES ==
    [depth |-> "intermediate", style |-> "journalistic", format |-> "reference",
     approach |-> "practical", density |-> "moderate"]

\* extractContentFeatures(content, title): the features callLLM resolves
\* with, or the default features when callLLM throws
extractContentFeatures(tagged, features) ==
    IF tagged THEN features ELSE DEFAULT_FEATURES

\* meta is z.record(z.any()): features that no schema has checked.
UncheckedFeatures ==
    [depth |-> "EXPERT", style |-> "hands-on", format |-> Undefined,
     approach |-> Undefined, density |-> Undefined]

----------------------------------------------------------------------------
(* events/store.ts *)

Users == {"X", "Y"}

\* getUserBandit(userId): the map after the call (a new bandit is stored for
\* a user that has none).
getUserBandit(bandits, userId) ==
    IF userId \in DOMAIN bandits THEN bandits ELSE bandits @@ (userId :> NewBandit)

\* UserEventSchema.parse(req.body) succeeds
UserEventSchemaOK(body) ==
    /\ body.userId # Undefined
    /\ body.eventType \in {"SOURCE_CLICKED", "CITATION_HOVERED", "SOURCE_EXPANDED", "ANSWER_SAVED"}

\* A features value that is absent (undefined or null) is the record without
\* any field set; a meta that is absent is the meta without any key set.
NoFeatures ==
    [depth |-> Undefined, style |-> Undefined, format |-> Undefined,
     approach |-> Undefined, density |-> Undefined]

Meta(features, allSourceFeatures) ==
    [features |-> features, allSourceFeatures |-> allSourceFeatures]

NoMeta == Meta(NoFeatures, <<>>)

\* event.meta?.features is truthy
HasFeatures(event) == event.meta.features # NoFeatures

\* logEvent(event): the bandits after the call
logEventBandits(bandits, event) ==
    LET bs == getUserBandit(bandits, event.userId)
    IN IF event.eventType = "SOURCE_CLICKED" /\ HasFeatures(event)
       THEN [bs EXCEPT ![event.userId] =
                recordClick(@, featuresToArms(event.meta.features), event.sourceId)]
       ELSE bs

getUserEvents(log, userId) == SelectSeq(log, LAMBDA e : e.userId = userId)

\* getUserBanditScores(userId): the scores (a user without a bandit gets a
\* new one, whose scores are empty)
getUserBanditScores(bandits, userId) ==
    getArmScores(getUserBandit(bandits, userId)[userId])

\* Variant: the loop runs forward, so the event after a removed one is skipped.
RECURSIVE SpliceForward(_, _, _)
SpliceForward(log, userId, i) ==
    IF i > Len(log)
    THEN log
    ELSE IF log[i].userId = userId
         THEN SpliceForward(SubSeq(log, 1, i - 1) \o SubSeq(log, i + 1, Len(log)),
                            userId, i + 1)
         ELSE SpliceForward(log, userId, i + 1)

clearUserEventsForward(log, userId) == SpliceForward(log, userId, 1)

\* Variant: the whole log is emptied.
clearUserEventsAll(log, userId) == <<>>

\* for (i = eventLog.length - 1; i >= 0; i--) if (eventLog[i].userId === userId) splice(i, 1)
RECURSIVE SpliceBackward(_, _, _)
SpliceBackward(log, userId, i) ==
    IF i < 1
    THEN log
    ELSE IF log[i].userId = userId
         THEN SpliceBackward(SubSeq(log, 1, i - 1) \o SubSeq(log, i + 1, Len(log)),
                             userId, i - 1)
         ELSE SpliceBackward(log, userId, i - 1)

clearUserEvents(log, userId) == SpliceBackward(log, userId, Len(log))

\* userBandits.delete(userId)
deleteUserBandit(bandits, userId) ==
    [u \in DOMAIN bandits \ {userId} |-> bandits[u]]

----------------------------------------------------------------------------
(* routes/preferences.ts: GET /api/preferences *)

topArms(bandits, userId) ==
    Slice(SortByScore(getArmScores(getUserBandit(bandits, userId)[userId])), TopPreferences)

totalInteractions(log, userId) ==
    Len(SelectSeq(getUserEvents(log, userId), LAMBDA e : e.eventType = "SOURCE_CLICKED"))

----------------------------------------------------------------------------
(* The last operation: its name, its inputs and what it returned *)

NoEvent ==
    [userId |-> Undefined, timestamp |-> 0, eventType |-> Undefined,
     sourceId |-> Undefined, queryId |-> Undefined, meta |-> NoMeta]

NoOp ==
    [op |-> "init", user |-> Undefined, arms |-> <<>>, sourceId |-> Undefined,
     timeoutMs |-> 0, event |-> NoEvent, status |-> 0, ret |-> <<>>]

Op(name) == [NoOp EXCEPT !.op = name]

----------------------------------------------------------------------------
(* SpecBandit: one bandit driven through its public methods, as the unit   *)
(* tests of the class drive it.                                            *)

\* Arm lists handed to the bandit; no list names an arm twice, as with the
\* lists featuresToArms builds.
TwoArms == <<"depth:expert", "style:technical">>

ThreeArms == <<"depth:introductory", "style:casual", "format:article">>

FiveArms ==
    <<"depth:expert", "style:technical", "format:tutorial",
      "approach:practical", "density:moderate">>

ArmLists == {TwoArms, ThreeArms, FiveArms}

ArmNames == UNION {Range(l) : l \in ArmLists}

QueryIds == {"query-1"}

\* The sources shown: <<arms, sourceId>>. source-1 can be shown twice, with
\* different arm lists.
ShownSources ==
    { <<TwoArms, "source-1">>, <<ThreeArms, "source-2">>, <<FiveArms, "source-1">> }

\* The clicks made: <<arms, sourceId>>, with a sourceId or without one.
ClickedSources ==
    { <<TwoArms, "source-1">>, <<FiveArms, "source-1">>,
      <<TwoArms, Undefined>>, <<ThreeArms, Undefined>> }

Timeouts == {0, TickMs}

\* successes and failures of an arm, 0 for an arm that is not tracked
Successes(b, arm) == IF HasArm(b.arms, arm) THEN getArmStats(b, arm).successes ELSE 0

Failures(b, arm) == IF HasArm(b.arms, arm) THEN getArmStats(b, arm).failures ELSE 0

Tracked(b) == Range(getAllArms(b))

\* The scenario "show sources, click one of them, then only resolve":
\* phase "shown" while only recordPendingImpression has been called on the
\* new bandit, "clicked" once a shown source was clicked with its own arms and
\* sourceId, "off" as soon as any other call is made.
NoScenario == [phase |-> "empty", arms |-> <<>>, sourceId |-> Undefined, others |-> <<>>]

ScenarioAfterPending ==
    IF scenario.phase \in {"empty", "shown"}
    THEN [scenario EXCEPT !.phase = "shown"]
    ELSE [scenario EXCEPT !.phase = "off"]

ScenarioAfterClick(arms, sourceId) ==
    IF /\ scenario.phase = "shown"
       /\ Truthy(sourceId)
       /\ \E i \in DOMAIN bandit.pendingImpressions :
            /\ bandit.pendingImpressions[i].sourceId = sourceId
            /\ bandit.pendingImpressions[i].arms = arms
    THEN [phase |-> "clicked", arms |-> arms, sourceId |-> sourceId,
          others |-> SelectSeq(bandit.pendingImpressions,
                               LAMBDA p : p.sourceId # sourceId)]
    ELSE [scenario EXCEPT !.phase = "off"]

ScenarioAfterResolve ==
    IF scenario.phase = "clicked" THEN scenario ELSE [scenario EXCEPT !.phase = "off"]

BanditRecordPendingImpression(arms, queryId, sourceId) ==
    /\ nops < MaxOps
    /\ Len(bandit.pendingImpressions) < MaxPending
    /\ bandit' = recordPendingImpression(bandit, arms, queryId, sourceId, now)
    /\ scenario' = ScenarioAfterPending
    /\ nops' = nops + 1
    /\ last' = [Op("recordPendingImpression") EXCEPT !.arms = arms, !.sourceId = sourceId]
    /\ UNCHANGED <<now, userBandits, eventLog, requests, ledger>>
    /\ UNCHANGED pipeline

BanditRecordClick(arms, sourceId) ==
    /\ nops < MaxOps
    /\ bandit' = recordClick(bandit, arms, sourceId)
    /\ scenario' = ScenarioAfterClick(arms, sourceId)
    /\ nops' = nops + 1
    /\ last' = [Op("recordClick") EXCEPT !.arms = arms, !.sourceId = sourceId]
    /\ UNCHANGED <<now, userBandits, eventLog, requests, ledger>>
    /\ UNCHANGED pipeline

BanditResolvePendingImpressions(timeoutMs) ==
    /\ nops < MaxOps
    /\ bandit' = resolvePendingImpressions(bandit, timeoutMs, now)
    /\ scenario' = ScenarioAfterResolve
    /\ nops' = nops + 1
    /\ last' = [Op("resolvePendingImpressions") EXCEPT !.timeoutMs = timeoutMs]
    /\ UNCHANGED <<now, userBandits, eventLog, requests, ledger>>
    /\ UNCHANGED pipeline

BanditGetArmScores ==
    /\ last' = [Op("getArmScores") EXCEPT !.ret = getArmScores(bandit)]
    /\ UNCHANGED <<now, bandit, userBandits, eventLog, requests, ledger, scenario, nops>>
    /\ UNCHANGED pipeline

\* Date.now() moves on between two calls.
BanditTick ==
    /\ now < MaxBanditTicks * TickMs
    /\ now' = now + TickMs
    /\ UNCHANGED <<bandit, userBandits, eventLog, requests, ledger, scenario, nops, last>>
    /\ UNCHANGED pipeline

\* No answer request yet: nothing written, the client still connected.
NoStream ==
    [pc |-> "idle", user |-> Undefined, frames |-> <<>>, ended |-> FALSE,
     hits |-> FALSE, attempt |-> 0, deltas |-> 0, cancelled |-> FALSE, after |-> {},
     cause |-> "none"]

NoSearch ==
    [pc |-> "idle", n |-> 0, batch |-> 0, settled |-> <<>>, allResults |-> <<>>,
     finalResults |-> <<>>, mode |-> "none", calls |-> 0, fallbackCalls |-> 0,
     fallback |-> [status |-> "none", value |-> <<>>], received |-> {}, result |-> <<>>,
     inFlight |-> {}, interleaved |-> <<>>]

NoSynth ==
    [pc |-> "idle", sources |-> 0, attempt |-> 0, deltas |-> 0, fullContent |-> <<>>,
     text |-> <<>>, citations |-> <<>>]

NoRetry ==
    [pc |-> "idle", call |-> "none", attempt |-> 0, outcomes |-> <<>>, slept |-> <<>>,
     result |-> [status |-> "none", value |-> ""]]

NoPlan ==
    [pc |-> "idle", query |-> "", attempt |-> 0, outcomes |-> <<>>,
     result |-> [originalQuery |-> "", subQueries |-> <<>>, strategy |-> "none"]]

Init ==
    /\ now = 0
    /\ bandit = NewBandit
    /\ userBandits = <<>>
    /\ eventLog = <<>>
    /\ requests = <<>>
    /\ ledger = <<>>
    /\ scenario = NoScenario
    /\ nops = 0
    /\ last = NoOp
    /\ stream = NoStream
    /\ search = NoSearch
    /\ plan = NoPlan
    /\ synth = NoSynth
    /\ retry = NoRetry

NextBandit ==
    \/ \E shown \in ShownSources, q \in QueryIds :
            BanditRecordPendingImpression(shown[1], q, shown[2])
    \/ \E clicked \in ClickedSources :
            BanditRecordClick(clicked[1], clicked[2])
    \/ \E t \in Timeouts : BanditResolvePendingImpressions(t)
    \/ BanditGetArmScores
    \/ BanditTick

SpecBandit == Init /\ [][NextBandit]_vars

----------------------------------------------------------------------------
(* Spec: the store and the routes, for two users                           *)

\* Ranked documents: id is the search hit's id (a hash of the URL), url the
\* page's URL, features the tagger's output or null (NoFeatures).
ExpertDoc ==
    [id |-> "brave-0a1b2c3d", url |-> "https://one.example/expert",
     features |-> ExpertFeatures]

IntroDoc ==
    [id |-> "brave-4e5f6a7b", url |-> "https://two.example/intro",
     features |-> IntroFeatures]

UntaggedDoc ==
    [id |-> "brave-8c9d0e1f", url |-> "https://three.example/plain",
     features |-> NoFeatures]

\* What search, scraping, ranking and personalization produce for a query.
rankedDocs == <<ExpertDoc, IntroDoc, UntaggedDoc>>

\* The queryId of the q-th request (the route draws a fresh id per request).
QueryIdOf(q) == "query-" \o ToString(q)

\* doc => doc.features
FeaturesTruthy(doc) == doc.features # NoFeatures

\* rankedDocs.slice(0, 8).filter(doc => doc.features)
topSources == SelectSeq(Slice(rankedDocs, TopShown), FeaturesTruthy)

\* for (const doc of topSources) bandit.recordPendingImpression(arms, queryId, doc.url)
RECURSIVE recordTopSources(_, _, _, _)
recordTopSources(b, docs, queryId, t) ==
    IF docs = <<>>
    THEN b
    ELSE recordTopSources(
            recordPendingImpression(b, featuresToArms(Head(docs).features),
                                    queryId, Head(docs).url, t),
            Tail(docs), queryId, t)

PendingOf(bandits, userId) ==
    IF userId \in DOMAIN bandits THEN bandits[userId].pendingImpressions ELSE <<>>

(* The ledger: one entry per impression recorded by an answer request, with
   how often it was counted as a success (a click on that source) and as a
   failure (a timeout), whether it has left the pending list, and whether
   the user's data was cleared while it was pending. *)

IsPending(bandits, imp) ==
    \E p \in Range(PendingOf(bandits, imp.user)) :
        p.queryId = imp.queryId /\ p.sourceId = imp.url

\* A logged click is a click on the impression's source: same user, the
\* source named by its id (as the web client does) or by its URL, and the
\* impression's query when the event names one.
ClickOn(event, imp) ==
    /\ event.eventType = "SOURCE_CLICKED"
    /\ HasFeatures(event)
    /\ event.userId = imp.user
    /\ event.sourceId \in {imp.id, imp.url}
    /\ event.queryId \in {Undefined, imp.queryId}

\* clicked, timedOut: the entries (indices) credited by the step.
LedgerAfter(bandits, clicked, timedOut) ==
    [i \in DOMAIN ledger |->
        [ledger[i] EXCEPT
            !.succ = IF i \in clicked THEN @ + 1 ELSE @,
            !.fail = IF i \in timedOut THEN @ + 1 ELSE @,
            !.gone = ~IsPending(bandits, ledger[i])]]

LedgerCleared(userId) ==
    [i \in DOMAIN ledger |->
        IF ledger[i].user = userId /\ ~ledger[i].gone
        THEN [ledger[i] EXCEPT !.gone = TRUE, !.cleared = TRUE]
        ELSE ledger[i]]

NewImpressions(userId, queryId, docs) ==
    [i \in DOMAIN docs |->
        [user |-> userId, queryId |-> queryId, url |-> docs[i].url, id |-> docs[i].id,
         succ |-> 0, fail |-> 0, gone |-> FALSE, cleared |-> FALSE]]

\* One more handler has run (or the clock has moved).
Step == nops < MaxSteps /\ nops' = nops + 1

(* POST /api/answer, in the blocks that touch the bandit: up to the first
   await, and from the ranking to the terminal frame. The progress frames and
   the awaits in between change nothing another handler can see. *)

\* Lines 29-57: parse the body, resolve the user's pending impressions, open
\* the stream. userId may be absent.
AnswerStart(userId) ==
    /\ Len(requests) < MaxRequests
    /\ LET bs == getUserBandit(userBandits, userId)
           due == toResolve(PendingOf(userBandits, userId), RouteTimeoutMs, now)
           after == IF userId = Undefined
                    THEN userBandits
                    ELSE [bs EXCEPT ![userId] =
                            resolvePendingImpressions(@, RouteTimeoutMs, now)]
       IN /\ userBandits' = after
          /\ ledger' = LedgerAfter(after, {},
                            { i \in DOMAIN ledger :
                                /\ ledger[i].user = userId
                                /\ \E p \in Range(due) :
                                        /\ p.queryId = ledger[i].queryId
                                        /\ p.sourceId = ledger[i].url })
    /\ requests' = Append(requests, [user |-> userId, pc |-> "planning"])
    /\ Step
    /\ UNCHANGED <<now, bandit, eventLog, scenario, last>>
    /\ UNCHANGED pipeline

\* The body fails AnswerRequestSchema: the catch block writes the error frame.
AnswerReject ==
    /\ Len(requests) < MaxRequests
    /\ requests' = Append(requests, [user |-> Undefined, pc |-> "error"])
    /\ Step
    /\ UNCHANGED <<now, bandit, userBandits, eventLog, ledger, scenario, last>>
    /\ UNCHANGED pipeline

\* Lines 72-110: rank, personalize (a read of the user's scores), record the
\* pending impressions of the top sources; then the synthesis ends with the
\* complete frame, or throws and the catch block writes the error frame.
AnswerRank(q, outcome) ==
    /\ q \in DOMAIN requests
    /\ requests[q].pc = "planning"
    /\ LET userId == requests[q].user
           bs == getUserBandit(userBandits, userId)
       IN IF userId = Undefined
          THEN UNCHANGED <<userBandits, ledger>>
          ELSE /\ userBandits' =
                    [bs EXCEPT ![userId] =
                        recordTopSources(@, topSources, QueryIdOf(q), now)]
               /\ ledger' = ledger \o NewImpressions(userId, QueryIdOf(q), topSources)
    /\ requests' = [requests EXCEPT ![q].pc = outcome]
    /\ Step
    /\ UNCHANGED <<now, bandit, eventLog, scenario, last>>
    /\ UNCHANGED pipeline

\* A step before the ranking threw (every search failed): error frame.
AnswerFail(q) ==
    /\ q \in DOMAIN requests
    /\ requests[q].pc = "planning"
    /\ requests' = [requests EXCEPT ![q].pc = "error"]
    /\ Step
    /\ UNCHANGED <<now, bandit, userBandits, eventLog, ledger, scenario, last>>
    /\ UNCHANGED pipeline

(* POST /api/events *)

\* The timestamp is the client's clock; the store keeps it as sent.
Event(userId, eventType, sourceId, queryId, meta) ==
    [userId |-> userId, timestamp |-> 0, eventType |-> eventType,
     sourceId |-> sourceId, queryId |-> queryId, meta |-> meta]

\* SearchPage.handleSourceClick: the web client's click on a source of the
\* answer it shows, named by source.id, with the source's features if any.
ClientClicks(userId) ==
    { Event(userId, "SOURCE_CLICKED", d.id, QueryIdOf(q),
            IF FeaturesTruthy(d) THEN Meta(d.features, <<>>) ELSE NoMeta) :
        <<q, d>> \in
            { qd \in (DOMAIN requests) \X Range(Slice(rankedDocs, TopShown)) :
                /\ requests[qd[1]].user = userId
                /\ requests[qd[1]].pc = "complete" } }

\* Events any client of the API can post.
PostedEvents(userId) ==
    { Event(userId, "SOURCE_CLICKED", ExpertDoc.url, Undefined, Meta(ExpertFeatures, <<>>)),
      Event(userId, "SOURCE_CLICKED", Undefined, Undefined, Meta(UncheckedFeatures, <<>>)),
      Event(userId, "SOURCE_EXPANDED", Undefined, Undefined,
            Meta(NoFeatures, <<ExpertFeatures, IntroFeatures>>)) }

\* Bodies that fail UserEventSchema: no userId, an eventType outside the enum.
RejectedBodies ==
    { Event(Undefined, "SOURCE_CLICKED", ExpertDoc.id, Undefined, Meta(ExpertFeatures, <<>>)),
      Event("X", "CITATION_CLICKED", ExpertDoc.id, Undefined, Meta(ExpertFeatures, <<>>)) }

EventBodies ==
    RejectedBodies \cup UNION {ClientClicks(u) \cup PostedEvents(u) : u \in Users}

\* 200 with the event logged, or 400 with nothing changed.
PostEvent(body) ==
    /\ Len(eventLog) < MaxEvents
    /\ Step
    /\ IF UserEventSchemaOK(body)
       THEN /\ eventLog' = Append(eventLog, body)
            /\ userBandits' = logEventBandits(userBandits, body)
            /\ ledger' = LedgerAfter(userBandits',
                                      {i \in DOMAIN ledger : ClickOn(body, ledger[i])}, {})
       ELSE UNCHANGED <<eventLog, userBandits, ledger>>
    /\ UNCHANGED <<now, bandit, requests, scenario, last>>
    /\ UNCHANGED pipeline

(* GET /api/events, GET and DELETE /api/preferences *)

\* res.json({ events: getUserEvents(userId) }): a read.
GetEvents(userId) ==
    /\ UNCHANGED vars

\* 400 without a userId; else getUserBandit(userId) (which stores a bandit for
\* a user that has none) and a read of its scores and of the log.
GetPreferences(userId) ==
    /\ userBandits' = IF userId = Undefined
                      THEN userBandits
                      ELSE getUserBandit(userBandits, userId)
    /\ Step
    /\ UNCHANGED <<now, bandit, eventLog, requests, ledger, scenario, last>>
    /\ UNCHANGED pipeline

\* 400 without a userId; else clearUserData(userId).
DeletePreferences(userId) ==
    /\ IF userId = Undefined
       THEN UNCHANGED <<userBandits, eventLog, ledger>>
       ELSE /\ userBandits' = deleteUserBandit(userBandits, userId)
            /\ eventLog' = clearUserEvents(eventLog, userId)
            /\ ledger' = LedgerCleared(userId)
    /\ Step
    /\ UNCHANGED <<now, bandit, requests, scenario, last>>
    /\ UNCHANGED pipeline

\* Date.now() moves on between two handlers.
Tick ==
    /\ now < MaxTicks * TickMs
    /\ now' = now + TickMs
    /\ Step
    /\ UNCHANGED <<bandit, userBandits, eventLog, requests, ledger, scenario, last>>
    /\ UNCHANGED pipeline

Next ==
    \/ \E u \in Users \cup {Undefined} : AnswerStart(u)
    \/ AnswerReject
    \/ \E q \in DOMAIN requests, outcome \in {"complete", "error"} : AnswerRank(q, outcome)
    \/ \E q \in DOMAIN requests : AnswerFail(q)
    \/ \E body \in EventBodies : PostEvent(body)
    \/ \E u \in Users \cup {Undefined} : GetEvents(u)
    \/ \E u \in Users \cup {Undefined} : GetPreferences(u)
    \/ \E u \in Users \cup {Undefined} : DeletePreferences(u)
    \/ Tick

Spec == Init /\ [][Next]_vars

----------------------------------------------------------------------------
(* applyPersonalization(userId, docs), and SpecPersonalize: a user's bandit *)
(* driven through its methods, with ranked lists personalized by its scores *)

RatioAdd(x, y) == Ratio(x[1] * y[2] + y[1] * x[2], x[2] * y[2])

RatioMul(x, y) == Ratio(x[1] * y[1], x[2] * y[2])

\* Math.min
RatioMin(x, y) == IF RatioGreater(x, y) THEN y ELSE x

RECURSIVE RatioSum(_)
RatioSum(xs) == IF xs = <<>> THEN <<0, 1>> ELSE RatioAdd(Head(xs), RatioSum(Tail(xs)))

\* the scores banditScores.get(arm) finds for the arms of the document
armScoresForDoc(banditScores, doc) ==
    LET arms == featuresToArms(doc.features)
        RECURSIVE collect(_)
        collect(i) ==
            IF i > Len(arms) THEN <<>>
            ELSE LET found == SelectSeq(banditScores, LAMBDA e : e.arm = arms[i])
                 IN (IF found = <<>> THEN <<>> ELSE <<found[1].score>>) \o collect(i + 1)
    IN collect(1)

\* boost: the average score of the document's arms that the bandit tracks
boostOf(banditScores, doc) ==
    IF doc.features = NoFeatures THEN <<0, 1>>
    ELSE LET scores == armScoresForDoc(banditScores, doc)
         IN IF scores = <<>> THEN <<0, 1>>
            ELSE RatioMul(RatioSum(scores), <<1, Len(scores)>>)

\* Variant: the whole boost is added, without the weight and the cap.
boostMultiplierWhole(boost) == RatioAdd(<<1, 1>>, boost)

\* Math.min(1 + boost * 0.3, 1.3)
boostMultiplier(boost) ==
    RatioMin(RatioAdd(<<1, 1>>, RatioMul(boost, <<BoostWeight, 10>>)), <<MaxMultiplier, 10>>)

applyPersonalization(banditScores, docs) ==
    IF Len(banditScores) = 0
    THEN docs
    ELSE SortByScore(
            [i \in DOMAIN docs |->
                [docs[i] EXCEPT !.score =
                    RatioMul(docs[i].score, boostMultiplier(boostOf(banditScores, docs[i])))]])

\* a ranked document with the score rankDocuments gave it
Scored(doc, score) ==
    [id |-> doc.id, url |-> doc.url, features |-> doc.features, score |-> score]

\* the document of a page whose feature tagging failed: fetchPage keeps
\* what extractContentFeatures returned, rankDocuments copies page.features
TaggingFailedDoc ==
    [id |-> "brave-2a3b4c5d", url |-> "https://four.example/failed",
     features |-> extractContentFeatures(FALSE, ExpertFeatures)]

ScoredDocs ==
    { Scored(ExpertDoc, <<9, 10>>), Scored(IntroDoc, <<1, 2>>), Scored(UntaggedDoc, <<7, 10>>),
      Scored(TaggingFailedDoc, <<3, 10>>) }

\* rankDocuments sorts by score, descending
RankedLists ==
    { <<Scored(UntaggedDoc, <<7, 10>>), Scored(IntroDoc, <<1, 2>>)>>,
      <<Scored(ExpertDoc, <<9, 10>>), Scored(UntaggedDoc, <<7, 10>>), Scored(IntroDoc, <<1, 2>>)>>,
      <<Scored(IntroDoc, <<1, 2>>)>>,
      <<Scored(UntaggedDoc, <<7, 10>>), Scored(TaggingFailedDoc, <<3, 10>>)>> }

\* the score rankDocuments gave the document
RankedScore(id) == (CHOOSE doc \in ScoredDocs : doc.id = id).score

Personalize(docs) ==
    /\ last' = [Op("applyPersonalization") EXCEPT
                    !.ret = applyPersonalization(getArmScores(bandit), docs)]
    /\ UNCHANGED <<now, bandit, userBandits, eventLog, requests, ledger, scenario, nops>>
    /\ UNCHANGED pipeline

NextPersonalize ==
    \/ NextBandit
    \/ \E docs \in RankedLists : Personalize(docs)

SpecPersonalize == Init /\ [][NextPersonalize]_vars

----------------------------------------------------------------------------
(* URLs, search hits and the pure functions of parallelSearch.ts           *)

\* A URL as written by the provider, in the parts new URL(url) splits it
\* into: scheme, host labels (in the case written), path segments, whether
\* the path ends with "/", and the query string.
Url(scheme, host, path, slash, query) ==
    [scheme |-> scheme, host |-> host, path |-> path, slash |-> slash, query |-> query]

RECURSIVE Join(_, _)
Join(parts, sep) ==
    IF parts = <<>> THEN ""
    ELSE IF Len(parts) = 1 THEN parts[1]
    ELSE parts[1] \o sep \o Join(Tail(parts), sep)

\* The URL string as the provider sent it.
Href(u) ==
    u.scheme \o "://" \o Join(u.host, ".")
        \o (IF u.path = <<>> THEN "" ELSE "/" \o Join(u.path, "/"))
        \o (IF u.slash THEN "/" ELSE "") \o u.query

\* toLowerCase() of the host labels in use.
Lower(label) ==
    CASE label = "Docs" -> "docs"
      [] label = "Example" -> "example"
      [] OTHER -> label

\* new URL(url).hostname: lowercased by the parser.
Hostname(u) == [i \in DOMAIN u.host |-> Lower(u.host[i])]

\* new URL(url).pathname: "/" for an empty path.
Pathname(u) ==
    IF u.path = <<>> THEN "/"
    ELSE "/" \o Join(u.path, "/") \o (IF u.slash THEN "/" ELSE "")

\* normalizeUrl(url): hostname without a leading "www.", pathname without a
\* trailing "/" unless it is the root, and the query string.
normalizeUrl(u) ==
    LET hostname == IF Len(Hostname(u)) > 1 /\ Hostname(u)[1] = "www"
                    THEN Tail(Hostname(u)) ELSE Hostname(u)
        path == IF u.path # <<>> /\ u.slash
                THEN "/" \o Join(u.path, "/")
                ELSE Pathname(u)
    IN Join(hostname, ".") \o path \o u.query

\* createHash('md5').update(result.url).digest('hex').substring(0, 8), for
\* the URL strings in use (the values are those md5 gives).
MD5Hex8(href) ==
    CASE href = "https://example.com/article" -> "141fbc78"
      [] href = "http://www.example.com/article/" -> "e0e7c8c3"
      [] href = "https://other.com/page" -> "e2634552"
      [] href = "https://extra1.com/page" -> "30bc8742"
      [] href = "https://new.com/article" -> "3d5e3b3f"
      [] href = "https://extra2.com/page" -> "bb7b2280"
      [] href = "https://Docs.Example.org/" -> "7d501f7e"
      [] href = "https://en.wikipedia.org/wiki/Topic" -> "1e441f11"
      [] href = "https://query1.com/0" -> "373b5275"
      [] href = "https://query1.com/1" -> "6ed8efaa"
      [] href = "https://query1.com/2" -> "0b5e5abc"
      [] href = "https://query1.com/3" -> "3659de0d"
      [] href = "https://query1.com/4" -> "7f645a1b"
      [] href = "https://query1.com/5" -> "445b35da"
      [] href = "https://query1.com/6" -> "5928dc46"
      [] href = "https://query1.com/7" -> "8b24512d"
      [] href = "https://query1.com/8" -> "49d9dd45"
      [] href = "https://query1.com/9" -> "773ea074"
      [] href = "https://query2.com/0" -> "82d43466"
      [] href = "https://query2.com/1" -> "86a0ac4d"
      [] href = "https://query2.com/2" -> "44ff60c6"
      [] href = "https://query2.com/3" -> "2f873e91"
      [] href = "https://query2.com/4" -> "4c7ba258"
      [] href = "https://query2.com/5" -> "1b5939de"
      [] href = "https://query2.com/6" -> "7ed6276f"
      [] href = "https://query2.com/7" -> "364b229c"
      [] href = "https://query2.com/8" -> "33dd223d"
      [] href = "https://query2.com/9" -> "f707a4c9"

\* searchWithBrave: one hit per result, its id from the hash of result.url.
BraveHit(u) == [id |-> "brave-" \o MD5Hex8(Href(u)), url |-> u, sourceQuery |-> Undefined]

ArticleUrl == Url("https", <<"example", "com">>, <<"article">>, FALSE, "")
ArticleWwwUrl == Url("http", <<"www", "example", "com">>, <<"article">>, TRUE, "")
OtherUrl == Url("https", <<"other", "com">>, <<"page">>, FALSE, "")
Extra1Url == Url("https", <<"extra1", "com">>, <<"page">>, FALSE, "")
NewUrl == Url("https", <<"new", "com">>, <<"article">>, FALSE, "")
Extra2Url == Url("https", <<"extra2", "com">>, <<"page">>, FALSE, "")
DocsRootUrl == Url("https", <<"Docs", "Example", "org">>, <<>>, TRUE, "")
WikipediaUrl == Url("https", <<"en", "wikipedia", "org">>, <<"wiki", "Topic">>, FALSE, "")

\* hostname.includes('wikipedia.org') || hostname.includes('wikimedia.org'),
\* for hosts whose labels are whole words.
IsWikipediaHost(u) ==
    \E i \in 1..(Len(Hostname(u)) - 1) :
        Hostname(u)[i] \in {"wikipedia", "wikimedia"} /\ Hostname(u)[i + 1] = "org"

\* filterWikipediaSources(results)
filterWikipediaSources(results) == SelectSeq(results, LAMBDA r : ~IsWikipediaHost(r.url))

\* deduplicateByUrl(results): the first hit of every normalized URL, in the
\* order of first occurrence (a Map keeps insertion order).
deduplicateByUrl(results) ==
    LET first(i) == \A j \in 1..(i - 1) :
                        normalizeUrl(results[j].url) # normalizeUrl(results[i].url)
        RECURSIVE keep(_)
        keep(i) == IF i > Len(results) THEN <<>>
                   ELSE (IF first(i) THEN <<results[i]>> ELSE <<>>) \o keep(i + 1)
    IN keep(1)

\* Variant: the first round takes 2 hits of every query.
takePerRoundEven(round, queryIdx) ==
    IF round = 0 THEN 2 ELSE 1

\* takePerRound(round, queryIdx), both counted from 0
takePerRound(round, queryIdx) ==
    IF round = 0 /\ queryIdx < 2 THEN 3
    ELSE IF round = 0 THEN 2
    ELSE 1

\* getPreviousTakeCount(currentRound, queryIdx, takePerRound)
RECURSIVE getPreviousTakeCount(_, _)
getPreviousTakeCount(currentRound, queryIdx) ==
    IF currentRound = 0 THEN 0
    ELSE getPreviousTakeCount(currentRound - 1, queryIdx)
            + takePerRound(currentRound - 1, queryIdx)

Max(a, b) == IF a > b THEN a ELSE b

RECURSIVE maxLength(_)
maxLength(lists) == IF lists = <<>> THEN 0 ELSE Max(Len(Head(lists)), maxLength(Tail(lists)))

\* interleaveResults(resultsByQuery): round by round, query by query, the
\* next takePerRound hits of the query.
interleaveResults(resultsByQuery) ==
    LET taken(round, q) ==
            LET startIdx == getPreviousTakeCount(round, q - 1)
                upTo == Min(startIdx + takePerRound(round, q - 1), Len(resultsByQuery[q]))
            IN SubSeq(resultsByQuery[q], startIdx + 1, upTo)
        RECURSIVE queries(_, _)
        queries(round, q) ==
            IF q > Len(resultsByQuery) THEN <<>>
            ELSE taken(round, q) \o queries(round, q + 1)
        RECURSIVE rounds(_)
        rounds(round) ==
            IF round >= maxLength(resultsByQuery) THEN <<>>
            ELSE queries(round, 1) \o rounds(round + 1)
    IN rounds(0)

\* mergeSearchResults(resultsByQuery): a single list is returned as it is.
mergeSearchResults(resultsByQuery) ==
    IF Len(resultsByQuery) = 0 THEN <<>>
    ELSE IF Len(resultsByQuery) = 1 THEN resultsByQuery[1]
    ELSE deduplicateByUrl(interleaveResults(
            [q \in DOMAIN resultsByQuery |-> deduplicateByUrl(resultsByQuery[q])]))

\* batchQueries(queries, batchSize): the indices of the b-th batch
BatchOf(n, b) ==
    ((b - 1) * MAX_CONCURRENT_SEARCHES + 1)..Min(b * MAX_CONCURRENT_SEARCHES, n)

\* const finalResults = filtered.length >= 5 ? filtered : merged
finalResults(merged) ==
    IF Len(filterWikipediaSources(merged)) >= MinResults
    THEN filterWikipediaSources(merged)
    ELSE merged

----------------------------------------------------------------------------
(* SpecEvents: the events router alone, with the response it sends         *)

\* POST /api/events: parse and log, res.json({success: true}) (status 200);
\* the catch block answers res.status(400).
EventsPost(body) ==
    /\ Len(eventLog) < MaxEvents
    /\ IF UserEventSchemaOK(body)
       THEN /\ eventLog' = Append(eventLog, body)
            /\ userBandits' = logEventBandits(userBandits, body)
            /\ last' = [Op("postEvent") EXCEPT !.user = body.userId, !.event = body,
                                               !.status = 200]
       ELSE /\ UNCHANGED <<eventLog, userBandits>>
            /\ last' = [Op("postEvent") EXCEPT !.event = body, !.status = 400]
    /\ UNCHANGED <<now, bandit, requests, ledger, scenario, nops>>
    /\ UNCHANGED pipeline

\* GET /api/events?userId=: 400 without a userId, else the user's events.
EventsGet(userId) ==
    /\ last' = IF userId = Undefined
               THEN [Op("getEvents") EXCEPT !.status = 400]
               ELSE [Op("getEvents") EXCEPT !.user = userId, !.status = 200,
                                            !.ret = getUserEvents(eventLog, userId)]
    /\ UNCHANGED <<now, bandit, userBandits, eventLog, requests, ledger, scenario, nops>>
    /\ UNCHANGED pipeline

NextEvents ==
    \/ \E body \in RejectedBodies \cup UNION {PostedEvents(u) : u \in Users} : EventsPost(body)
    \/ \E u \in Users \cup {Undefined} : EventsGet(u)

SpecEvents == Init /\ [][NextEvents]_vars

----------------------------------------------------------------------------
(* SpecAnswer: one POST /api/answer handler, await by await, with the      *)
(* frames it writes, and a client that may go away at any moment           *)

\* res.write(`data: ...`) of a frame of the given type. stream.after collects
\* what the handler does once the client is gone.
StreamWrite(st, frame) ==
    [st EXCEPT !.frames = Append(@, frame),
               !.after = IF st.cancelled THEN @ \cup {frame} ELSE @]

\* An external call is started: "search", "fetch" or "llm".
StreamCall(st, call) ==
    [st EXCEPT !.after = IF st.cancelled THEN @ \cup {call} ELSE @]

\* Variant: the catch block ends the response without a frame.
CatchSilently(st) == [st EXCEPT !.ended = TRUE, !.pc = "done"]

\* catch (error): the error frame, res.end()
Catch(st) == [StreamWrite(st, "error") EXCEPT !.ended = TRUE, !.pc = "done"]

\* Lines 28-58: parse the body (a throw goes to the catch block), resolve the
\* user's pending impressions, the planning frame, then createQueryPlan
\* unless the body brings a plan, in which case the search starts at once.
AnswerRequest(valid, userId, providedPlan) ==
    /\ stream.pc = "idle"
    /\ IF ~valid
       THEN /\ stream' = Catch([stream EXCEPT !.cause = "body"])
            /\ UNCHANGED userBandits
       ELSE /\ userBandits' =
                IF userId = Undefined
                THEN userBandits
                ELSE [getUserBandit(userBandits, userId) EXCEPT ![userId] =
                        resolvePendingImpressions(@, RouteTimeoutMs, now)]
            /\ LET s1 == StreamWrite([stream EXCEPT !.user = userId], "progress")
               IN stream' =
                    IF providedPlan
                    THEN [StreamCall(StreamWrite(s1, "progress"), "search")
                            EXCEPT !.pc = "searching"]
                    ELSE [StreamCall(s1, "llm") EXCEPT !.pc = "planning"]
    /\ UNCHANGED <<now, bandit, eventLog, requests, ledger, scenario, nops, last>>
    /\ UNCHANGED <<search, plan, synth, retry>>

\* Lines 58-62: createQueryPlan has returned (it does not throw); the
\* searching frame, then executeParallelSearch.
AnswerPlanned ==
    /\ stream.pc = "planning"
    /\ stream' = [StreamCall(StreamWrite(stream, "progress"), "search")
                    EXCEPT !.pc = "searching"]
    /\ UNCHANGED store
    /\ UNCHANGED <<search, plan, synth, retry>>

\* Lines 62-67: executeParallelSearch has thrown, or returned no hit (nothing
\* to fetch), or returned hits whose pages are then fetched.
AnswerSearched(outcome) ==
    /\ stream.pc = "searching"
    /\ stream' =
        CASE outcome = "throws" -> Catch([stream EXCEPT !.cause = "search"])
          [] outcome = "empty" -> [stream EXCEPT !.pc = "scraping", !.hits = FALSE]
          [] OTHER -> [StreamCall(stream, "fetch") EXCEPT !.pc = "scraping", !.hits = TRUE]
    /\ UNCHANGED store
    /\ UNCHANGED <<search, plan, synth, retry>>

\* Lines 67-102: scrapePages has returned (it does not throw); the analyzing
\* frame, ranking, personalization and pending impressions, the synthesizing
\* frame; synthesizeAnswer throws at once without documents, else it starts
\* the streamed completion.
AnswerScraped(pages) ==
    /\ stream.pc = "scraping"
    /\ pages => stream.hits
    /\ userBandits' =
        IF stream.user = Undefined \/ ~pages
        THEN userBandits
        ELSE [getUserBandit(userBandits, stream.user) EXCEPT ![stream.user] =
                recordTopSources(@, topSources, QueryIdOf(1), now)]
    /\ LET s2 == StreamWrite(StreamWrite(stream, "progress"), "progress")
       IN stream' =
            IF pages
            THEN [StreamCall(s2, "llm") EXCEPT !.pc = "synthesizing", !.attempt = 1]
            ELSE Catch([s2 EXCEPT !.cause = "documents"])
    /\ UNCHANGED <<now, bandit, eventLog, requests, ledger, scenario, nops, last>>
    /\ UNCHANGED <<search, plan, synth, retry>>

\* llm.ts 181-187: one more chunk of the completion is read; the delta is
\* added to fullContent and nothing is written to the response.
AnswerDelta ==
    /\ stream.pc = "synthesizing"
    /\ stream.deltas < MaxChunks
    /\ stream' = [stream EXCEPT !.deltas = @ + 1]
    /\ UNCHANGED store
    /\ UNCHANGED <<search, plan, synth, retry>>

\* The completion ends: it failed (or was empty) and withRetry starts another
\* call or gives up after MaxAttempts; or the text is there and the packet
\* passes AnswerPacketSchema (complete frame, res.end()) or not (catch block).
AnswerSynthesized(outcome) ==
    /\ stream.pc = "synthesizing"
    /\ stream' =
        CASE outcome = "fails" /\ stream.attempt < MaxAttempts ->
                [StreamCall(stream, "llm") EXCEPT !.attempt = @ + 1, !.deltas = 0]
          [] outcome = "fails" /\ stream.attempt >= MaxAttempts ->
                Catch([stream EXCEPT !.cause = "synthesis"])
          [] outcome = "invalid" -> Catch([stream EXCEPT !.cause = "packet"])
          [] OTHER -> [StreamWrite(stream, "complete") EXCEPT !.ended = TRUE, !.pc = "done"]
    /\ UNCHANGED store
    /\ UNCHANGED <<search, plan, synth, retry>>

\* The client goes away while the handler runs. No code of the route or of
\* the LLM client listens for it.
AnswerCancel ==
    /\ stream.pc \notin {"idle", "done"}
    /\ ~stream.cancelled
    /\ stream' = [stream EXCEPT !.cancelled = TRUE]
    /\ UNCHANGED store
    /\ UNCHANGED <<search, plan, synth, retry>>

NextAnswer ==
    \/ \E valid \in BOOLEAN, u \in {"X", Undefined}, providedPlan \in BOOLEAN :
            AnswerRequest(valid, u, providedPlan)
    \/ AnswerPlanned
    \/ \E outcome \in {"throws", "empty", "hits"} : AnswerSearched(outcome)
    \/ \E pages \in BOOLEAN : AnswerScraped(pages)
    \/ AnswerDelta
    \/ \E outcome \in {"fails", "invalid", "ok"} : AnswerSynthesized(outcome)
    \/ AnswerCancel

SpecAnswer == Init /\ [][NextAnswer]_vars

----------------------------------------------------------------------------
(* SpecSearch: one call of executeParallelSearch(subQueries, fallbackQuery) *)

A == BraveHit(ArticleUrl)
A2 == BraveHit(ArticleWwwUrl)
B == BraveHit(OtherUrl)
C == BraveHit(Extra1Url)
D == BraveHit(NewUrl)
E == BraveHit(Extra2Url)
R == BraveHit(DocsRootUrl)
W == BraveHit(WikipediaUrl)

\* the URLs https://query1.com/0 ... of the interleaving test
QueryUrl(host, k) == Url("https", <<host, "com">>, <<ToString(k)>>, FALSE, "")

\* a full page of results: as many hits as the search asks for
FullPage(host) == [k \in 1..MAX_RESULTS_PER_QUERY |-> BraveHit(QueryUrl(host, k - 1))]

\* What searchProvider.search can resolve with: at most the maxResults
\* hits that every call asks for.
ProviderResults ==
    { <<>>, <<A>>, <<A, B, C, D, E>>, <<A, A2, B, C, D, E>>,
      <<W, A, B, C, D, E>>, <<W, R>>, FullPage("query1"), FullPage("query2") }

Throws == [status |-> "throws", value |-> <<>>]
Timeout == [status |-> "timeout", value |-> <<>>]

Pending == [status |-> "pending", value |-> <<>>]
Rejected == [status |-> "rejected", value |-> <<>>]
Fulfilled(value) == [status |-> "fulfilled", value |-> value]

\* how a search for one query can end
SearchOutcomes == {Throws, Timeout} \cup {Fulfilled(r) : r \in ProviderResults}

\* searchWithTimeout(query, queryIndex): the provider's hits with the
\* sub-query that found them.
searchWithTimeout(q, results) ==
    [i \in DOMAIN results |-> [results[i] EXCEPT !.sourceQuery = "sub-" \o ToString(q)]]

HitsOf(results) == {results[i] : i \in DOMAIN results}

\* the successful results of the settled batch, in the order of the batch
RECURSIVE successfulResults(_, _)
successfulResults(settled, i) ==
    IF i > Len(settled) THEN <<>>
    ELSE (IF settled[i].status = "fulfilled" THEN <<settled[i].value>> ELSE <<>>)
            \o successfulResults(settled, i + 1)

NumBatches(n) == (n + MAX_CONCURRENT_SEARCHES - 1) \div MAX_CONCURRENT_SEARCHES

CallFallbackTwice(sr, mode) ==
    [sr EXCEPT !.pc = "fallback", !.mode = mode, !.fallback = Pending,
               !.calls = @ + 2, !.fallbackCalls = @ + 2, !.inFlight = @ \cup {0}]

\* searchProvider.search(fallbackQuery, ...)
CallFallback(sr, mode) ==
    [sr EXCEPT !.pc = "fallback", !.mode = mode, !.fallback = Pending,
               !.calls = @ + 1, !.fallbackCalls = @ + 1, !.inFlight = @ \cup {0}]

\* batch.map(searchWithTimeout): every search of the batch is started
StartBatch(sr, b) ==
    [sr EXCEPT !.pc = "batch", !.batch = b,
               !.calls = @ + Cardinality(BatchOf(sr.n, b)),
               !.inFlight = @ \cup BatchOf(sr.n, b)]

\* lines 58-103: after the last batch
\* the list mergeSearchResults interleaves: the results of each query
\* without its duplicates
dedupedByQuery(resultsByQuery) ==
    [q \in DOMAIN resultsByQuery |-> deduplicateByUrl(resultsByQuery[q])]

\* Variant: the merged list is returned whole.
AfterBatchesWhole(sr) ==
    IF Len(sr.allResults) = 0 THEN CallFallback(sr, "only")
    ELSE [sr EXCEPT !.pc = "returned",
                    !.result = finalResults(mergeSearchResults(sr.allResults))]

AfterBatches(sr) ==
    IF Len(sr.allResults) = 0 THEN CallFallback(sr, "only")
    ELSE LET final == finalResults(mergeSearchResults(sr.allResults))
             merged == [sr EXCEPT
                          !.finalResults = final,
                          !.interleaved =
                              IF Len(sr.allResults) > 1
                              THEN interleaveResults(dedupedByQuery(sr.allResults))
                              ELSE <<>>]
         IN IF Len(final) < MinResults
            THEN CallFallback(merged, "supplement")
            ELSE [merged EXCEPT !.pc = "returned", !.result = Slice(final, MaxReturned)]

SearchStart(n) ==
    /\ search.pc = "idle"
    /\ search' = IF n = 0
                 THEN CallFallback([search EXCEPT !.n = n], "only")
                 ELSE StartBatch([search EXCEPT !.n = n, !.settled = [i \in 1..n |-> Pending]], 1)
    /\ UNCHANGED store
    /\ UNCHANGED <<stream, plan, synth, retry>>

\* one search of the running batch resolves, throws or times out
SearchSettle(i, outcome) ==
    /\ search.pc = "batch"
    /\ i \in BatchOf(search.n, search.batch)
    /\ search.settled[i] = Pending
    /\ search' =
        CASE outcome.status = "throws" ->
                [search EXCEPT !.settled[i] = Rejected, !.inFlight = @ \ {i}]
          [] outcome.status = "timeout" ->
                [search EXCEPT !.settled[i] = Rejected]
          [] OTHER ->
                [search EXCEPT
                    !.settled[i] = Fulfilled(searchWithTimeout(i, outcome.value)),
                    !.received = @ \cup HitsOf(outcome.value),
                    !.inFlight = @ \ {i}]
    /\ UNCHANGED store
    /\ UNCHANGED <<stream, plan, synth, retry>>

\* Promise.allSettled(batch) resolves
SearchBatchSettled ==
    /\ search.pc = "batch"
    /\ \A i \in BatchOf(search.n, search.batch) : search.settled[i] # Pending
    /\ LET b == search.batch
           batchSettled == [k \in 1..Cardinality(BatchOf(search.n, b)) |->
                               search.settled[(b - 1) * MAX_CONCURRENT_SEARCHES + k]]
           sr == [search EXCEPT !.allResults = @ \o successfulResults(batchSettled, 1)]
       IN search' = IF b < NumBatches(search.n)
                    THEN StartBatch(sr, b + 1)
                    ELSE AfterBatches(sr)
    /\ UNCHANGED store
    /\ UNCHANGED <<stream, plan, synth, retry>>

\* the call for the fallback query resolves or throws
SearchFallbackSettled(outcome) ==
    /\ search.pc = "fallback"
    /\ search' = IF outcome.status = "throws"
                 THEN [search EXCEPT !.pc = "thrown", !.fallback = outcome,
                                     !.inFlight = @ \ {0}]
                 ELSE [search EXCEPT
                         !.pc = "returned",
                         !.inFlight = @ \ {0},
                         !.fallback = outcome,
                         !.received = @ \cup HitsOf(outcome.value),
                         !.result = IF search.mode = "only"
                                    THEN outcome.value
                                    ELSE Slice(mergeSearchResults(
                                                <<search.finalResults, outcome.value>>),
                                               MaxReturned)]
    /\ UNCHANGED store
    /\ UNCHANGED <<stream, plan, synth, retry>>

NextSearch ==
    \/ \E n \in 0..MaxSubQueries : SearchStart(n)
    \/ \E i \in 1..MaxSubQueries, outcome \in SearchOutcomes : SearchSettle(i, outcome)
    \/ SearchBatchSettled
    \/ \E outcome \in SearchOutcomes \ {Timeout} : SearchFallbackSettled(outcome)

SpecSearch == Init /\ [][NextSearch]_vars

----------------------------------------------------------------------------
(* SpecBatches: executeParallelSearch with a full batch or more of         *)
(* sub-queries, and the provider searches that a timeout has abandoned     *)

\* The provider search that searchWithTimeout stopped waiting for settles:
\* Promise.race has rejected already, the search itself was not stopped.
SearchAbandonedSettles(i) ==
    /\ i \in search.inFlight
    /\ i \in DOMAIN search.settled
    /\ search.settled[i] = Rejected
    /\ search' = [search EXCEPT !.inFlight = @ \ {i}]
    /\ UNCHANGED store
    /\ UNCHANGED <<stream, plan, synth, retry>>

BatchOutcomes == {Throws, Timeout, Fulfilled(<<>>)}

NextBatches ==
    \/ \E n \in MAX_CONCURRENT_SEARCHES..MaxBatchQueries : SearchStart(n)
    \/ \E i \in 1..MaxBatchQueries, outcome \in BatchOutcomes : SearchSettle(i, outcome)
    \/ \E i \in 1..MaxBatchQueries : SearchAbandonedSettles(i)
    \/ SearchBatchSettled
    \/ \E outcome \in {Throws, Fulfilled(<<>>)} : SearchFallbackSettled(outcome)

SpecBatches == Init /\ [][NextBatches]_vars

----------------------------------------------------------------------------
(* SpecPlan: one call of createQueryPlan(query)                             *)

Queries == {"", "how do vaccines work"}

\* the sub-queries of an answer of the LLM with k of them
LLMSubQueries(k) == [i \in 1..k |-> "sub-query " \o ToString(i)]

\* how one request to the LLM can end: the request throws, the message has
\* no parsed content, or the content is a list of sub-queries
LLMOutcomes ==
    {[kind |-> "throws", subQueries |-> <<>>], [kind |-> "unparsed", subQueries |-> <<>>]}
        \cup {[kind |-> "content", subQueries |-> LLMSubQueries(k)] : k \in 0..MaxLLMSubQueries}

\* SubQueriesSchema: z.array(z.string()).min(2).max(5)
SubQueriesSchemaOK(subQueries) ==
    Len(subQueries) >= MinSubQueries /\ Len(subQueries) <= MaxPlanSubQueries

\* QueryPlanSchema: subQueries z.array(z.string()).min(1).max(5)
QueryPlanSchemaOK(p) ==
    Len(p.subQueries) >= MinPlanSubQueries /\ Len(p.subQueries) <= MaxPlanSubQueries

\* one attempt of callLLM succeeds: completions.parse resolves with content
\* that its response format (the schema) accepts, and parsed is not null
AttemptSucceeds(outcome) ==
    outcome.kind = "content" /\ SubQueriesSchemaOK(outcome.subQueries)

PlanCatchRethrow(pl) == [pl EXCEPT !.pc = "raised"]

\* the catch block of createQueryPlan
PlanCatch(pl) ==
    [pl EXCEPT !.pc = "returned",
               !.result = [originalQuery |-> pl.query, subQueries |-> <<pl.query>>,
                           strategy |-> "fallback"]]

\* the try block after callLLM resolved
PlanFromLLM(pl, subQueries) ==
    LET p == [originalQuery |-> pl.query, subQueries |-> Slice(subQueries, MaxPlanSubQueries),
              strategy |-> "llm"]
    IN IF QueryPlanSchemaOK(p)
       THEN [pl EXCEPT !.pc = "returned", !.result = p]
       ELSE PlanCatch(pl)

PlanStart(query) ==
    /\ plan.pc = "idle"
    /\ plan' = [plan EXCEPT !.pc = "calling", !.query = query, !.attempt = 1]
    /\ UNCHANGED store
    /\ UNCHANGED <<stream, search, synth, retry>>

\* one attempt of withRetry settles
PlanLLMSettled(outcome) ==
    /\ plan.pc = "calling"
    /\ LET pl == [plan EXCEPT !.outcomes = Append(@, outcome)]
       IN plan' = IF AttemptSucceeds(outcome)
                  THEN PlanFromLLM(pl, outcome.subQueries)
                  ELSE IF plan.attempt < MaxAttempts
                  THEN [pl EXCEPT !.attempt = @ + 1]
                  ELSE PlanCatch(pl)
    /\ UNCHANGED store
    /\ UNCHANGED <<stream, search, synth, retry>>

NextPlan ==
    \/ \E query \in Queries : PlanStart(query)
    \/ \E outcome \in LLMOutcomes : PlanLLMSettled(outcome)

SpecPlan == Init /\ [][NextPlan]_vars

----------------------------------------------------------------------------
(* synthesize.ts: citations in the generated text.  A text is the sequence *)
(* of its characters.                                                      *)

Digits == <<"0", "1", "2", "3", "4", "5", "6", "7", "8", "9">>

IsDigit(c) == c \in Range(Digits)

\* \s, for the whitespace in use
IsSpace(c) == c = " "

DigitValue(c) == (CHOOSE d \in DOMAIN Digits : Digits[d] = c) - 1

\* the index after the run of digits (\d+) that starts at i
RECURSIVE AfterDigits(_, _)
AfterDigits(t, i) ==
    IF i <= Len(t) /\ IsDigit(t[i]) THEN AfterDigits(t, i + 1) ELSE i

\* the index after the whitespace (\s*) that starts at i
RECURSIVE AfterSpaces(_, _)
AfterSpaces(t, i) ==
    IF i <= Len(t) /\ IsSpace(t[i]) THEN AfterSpaces(t, i + 1) ELSE i

\* the index after (?:\s*,\s*\d+)* matched greedily from i
RECURSIVE AfterGroups(_, _)
AfterGroups(t, i) ==
    LET comma == AfterSpaces(t, i)
        number == AfterSpaces(t, comma + 1)
    IN IF comma <= Len(t) /\ t[comma] = "," /\ number <= Len(t) /\ IsDigit(t[number])
       THEN AfterGroups(t, AfterDigits(t, number))
       ELSE i

\* /\[(\d+(?:\s*,\s*\d+)*)\]/ matched at i: the index of the closing
\* bracket, or 0 when there is no match at i
MatchAt(t, i) ==
    IF t[i] = "[" /\ i + 1 <= Len(t) /\ IsDigit(t[i + 1])
    THEN LET close == AfterGroups(t, AfterDigits(t, i + 1))
         IN IF close <= Len(t) /\ t[close] = "]" THEN close ELSE 0
    ELSE 0

\* parseInt(n.trim(), 10) of the digits t[i..j-1]
RECURSIVE parseInt(_, _, _)
parseInt(t, i, j) ==
    IF i >= j THEN 0 ELSE parseInt(t, i, j - 1) * 10 + DigitValue(t[j - 1])

\* match[1].split(',').map(n => parseInt(n.trim(), 10)) of the match t[i..close]
RECURSIVE NumbersOf(_, _, _)
NumbersOf(t, i, close) ==
    IF i >= close THEN <<>>
    ELSE IF IsDigit(t[i])
         THEN <<parseInt(t, i, AfterDigits(t, i))>> \o NumbersOf(t, AfterDigits(t, i), close)
         ELSE NumbersOf(t, i + 1, close)

\* the numbers of all matches of the global regex, in the order of the text
RECURSIVE CitedNumbers(_, _)
CitedNumbers(t, i) ==
    IF i > Len(t) THEN <<>>
    ELSE IF MatchAt(t, i) # 0
         THEN NumbersOf(t, i + 1, MatchAt(t, i)) \o CitedNumbers(t, MatchAt(t, i) + 1)
         ELSE CitedNumbers(t, i + 1)

\* Array.from(set).sort((a, b) => a - b)
RECURSIVE Ascending(_)
Ascending(S) ==
    IF S = {} THEN <<>>
    ELSE LET least == CHOOSE x \in S : \A y \in S : x <= y
         IN <<least>> \o Ascending(S \ {least})

\* Variant: the indices as they are cited, one entry per mention.
extractCitationIndicesPerMention(t) == CitedNumbers(t, 1)

extractCitationIndices(t) == Ascending(Range(CitedNumbers(t, 1)))

\* `${index}`
RECURSIVE NumberToString(_)
NumberToString(n) ==
    IF n < 10 THEN <<Digits[n + 1]>>
    ELSE NumberToString(n \div 10) \o <<Digits[(n % 10) + 1]>>

StartsWith(t, i, pattern) ==
    /\ i + Len(pattern) - 1 <= Len(t)
    /\ \A k \in DOMAIN pattern : t[i + k - 1] = pattern[k]

\* text.replace(new RegExp(`\\[${index}\\]`, 'g'), replacement)
RECURSIVE ReplaceAll(_, _, _, _)
ReplaceAll(t, i, pattern, replacement) ==
    IF i > Len(t) THEN <<>>
    ELSE IF StartsWith(t, i, pattern)
         THEN replacement \o ReplaceAll(t, i + Len(pattern), pattern, replacement)
         ELSE <<t[i]>> \o ReplaceAll(t, i + 1, pattern, replacement)

Bracketed(index) == <<"[">> \o NumberToString(index) \o <<"]">>

\* findBestMatchingSource(invalidIndex, docs): null is 0
findBestMatchingSource(invalidIndex, docs) ==
    IF invalidIndex > Len(docs) \/ invalidIndex < 1 THEN 0 ELSE invalidIndex

\* one round of the loop of processCitations
ProcessIndex(acc, index, docs) ==
    IF index < 1 \/ index > Len(docs)
    THEN LET correctedIndex == findBestMatchingSource(index, docs)
         IN IF correctedIndex # 0
            THEN [acc EXCEPT !.processedText =
                        ReplaceAll(@, 1, Bracketed(index), Bracketed(correctedIndex))]
            ELSE [acc EXCEPT !.processedText =
                        ReplaceAll(@, 1, Bracketed(index), NumberToString(index))]
    ELSE [acc EXCEPT !.citations =
                Append(@, [index |-> index, sourceId |-> docs[index].id])]

RECURSIVE ProcessIndices(_, _, _)
ProcessIndices(acc, indices, docs) ==
    IF indices = <<>> THEN acc
    ELSE ProcessIndices(ProcessIndex(acc, Head(indices), docs), Tail(indices), docs)

processCitations(text, docs) ==
    ProcessIndices([processedText |-> text, citations |-> <<>>],
                   extractCitationIndices(text), docs)

----------------------------------------------------------------------------
(* SpecSynth: one call of synthesizeAnswer(query, docs, queryId, onChunk)   *)

\* rankedDocs.slice(0, 8) of a request with that many ranked documents
SourcesOf(n) == Slice(rankedDocs, n)

SourceCounts == {0, 1, 2}

\* chunk.choices[0]?.delta?.content of one chunk of the stream
Deltas ==
    { <<>>,
      <<"a", " ">>,
      <<"[", "1", "]">>,
      <<"[", "2", ",", " ", "9", "]">>,
      <<"[", "1", "0", "]">>,
      <<"[", "[", "9", "]", "]">>,
      <<"[", "0", "]">> }

\* one attempt of withRetry failed
SynthAttemptFailed(sy) ==
    IF sy.attempt < MaxAttempts
    THEN [sy EXCEPT !.attempt = @ + 1, !.deltas = 0, !.fullContent = <<>>]
    ELSE [sy EXCEPT !.pc = "thrown"]

SynthStart(n) ==
    /\ synth.pc = "idle"
    /\ synth' = IF n = 0
                THEN [synth EXCEPT !.pc = "thrown", !.sources = n]
                ELSE [synth EXCEPT !.pc = "streaming", !.sources = n, !.attempt = 1]
    /\ UNCHANGED store
    /\ UNCHANGED <<stream, search, plan, retry>>

\* for await (const chunk of stream): if (delta) fullContent += delta
SynthDelta(delta) ==
    /\ synth.pc = "streaming"
    /\ synth.deltas < MaxDeltas
    /\ synth' = [synth EXCEPT !.deltas = @ + 1, !.fullContent = @ \o delta]
    /\ UNCHANGED store
    /\ UNCHANGED <<stream, search, plan, retry>>

\* the request or the stream throws
SynthError ==
    /\ synth.pc = "streaming"
    /\ synth' = SynthAttemptFailed(synth)
    /\ UNCHANGED store
    /\ UNCHANGED <<stream, search, plan, retry>>

\* the stream ends
SynthEnd ==
    /\ synth.pc = "streaming"
    /\ synth' = IF synth.fullContent = <<>>
                THEN SynthAttemptFailed(synth)
                ELSE LET processed == processCitations(synth.fullContent,
                                                       SourcesOf(synth.sources))
                     IN [synth EXCEPT !.pc = "returned",
                                      !.text = processed.processedText,
                                      !.citations = processed.citations]
    /\ UNCHANGED store
    /\ UNCHANGED <<stream, search, plan, retry>>

NextSynth ==
    \/ \E n \in SourceCounts : SynthStart(n)
    \/ \E delta \in Deltas : SynthDelta(delta)
    \/ SynthError
    \/ SynthEnd

SpecSynth == Init /\ [][NextSynth]_vars

----------------------------------------------------------------------------
(* Claims about the bandit class, checked under SpecBandit *)

\* What the entries of `entries` that list `arm` add up to, 1/|arms| each.
RECURSIVE ShareSum(_, _)
ShareSum(entries, arm) ==
    IF entries = <<>>
    THEN 0
    ELSE (IF arm \in Range(Head(entries).arms)
          THEN Unit \div Len(Head(entries).arms) ELSE 0)
         + ShareSum(Tail(entries), arm)

RECURSIVE TotalFailures(_)
TotalFailures(arms) ==
    IF arms = <<>> THEN 0 ELSE Head(arms).failures + TotalFailures(Tail(arms))

C5_ResolveAtLeastTimeout ==
    [][nops' = nops + 1 /\ last'.op = "resolvePendingImpressions" =>
        LET old == SelectSeq(bandit.pendingImpressions,
                             LAMBDA p : now - p.timestamp >= last'.timeoutMs)
            young == SelectSeq(bandit.pendingImpressions,
                               LAMBDA p : now - p.timestamp < last'.timeoutMs)
        IN /\ bandit'.pendingImpressions = young
           /\ \A a \in ArmNames :
                /\ Successes(bandit', a) = Successes(bandit, a)
                /\ Failures(bandit', a) = Failures(bandit, a) + ShareSum(old, a)]_vars

\* C5 as stated: only the entries strictly older than the timeout are removed
\* and charged; an entry whose age equals the timeout stays pending.
C5_ResolveOlderThanTimeout ==
    [][nops' = nops + 1 /\ last'.op = "resolvePendingImpressions" =>
        LET old == SelectSeq(bandit.pendingImpressions,
                             LAMBDA p : now - p.timestamp > last'.timeoutMs)
            young == SelectSeq(bandit.pendingImpressions,
                               LAMBDA p : now - p.timestamp <= last'.timeoutMs)
        IN /\ bandit'.pendingImpressions = young
           /\ \A a \in ArmNames :
                /\ Successes(bandit', a) = Successes(bandit, a)
                /\ Failures(bandit', a) = Failures(bandit, a) + ShareSum(old, a)]_vars

\* C5 witness: a resolve that charged one entry and kept a younger one pending.
C5_Witness ==
    /\ last.op = "resolvePendingImpressions"
    /\ last.timeoutMs > 0
    /\ Len(bandit.pendingImpressions) = 1
    /\ TotalFailures(bandit.arms) = Unit

C7_StatsNonNegativeNonDecreasing ==
    /\ [](\A a \in ArmNames : Successes(bandit, a) >= 0 /\ Failures(bandit, a) >= 0)
    /\ [][\A a \in ArmNames :
            Successes(bandit', a) + Failures(bandit', a)
                >= Successes(bandit, a) + Failures(bandit, a)]_vars

\* C7 witness: an arm that has collected both successes and failures.
C7_Witness ==
    \E a \in ArmNames : Successes(bandit, a) > 0 /\ Failures(bandit, a) > 0

----------------------------------------------------------------------------
(* Claims about the store and the routes (Spec)                            *)

\* C1: every pending impression recorded for a shown source is resolved
\* exactly once: counted as a success when its source is clicked or as a
\* failure when it times out, never both, never neither, and it is off the
\* pending list exactly when it has been counted. (Impressions dropped by
\* clearUserData are left out: the claim is about requests and clicks.)
C1_ResolvedExactlyOnce ==
    \A i \in DOMAIN ledger :
        ~ledger[i].cleared =>
            /\ ledger[i].succ + ledger[i].fail <= 1
            /\ ledger[i].gone <=> (ledger[i].succ + ledger[i].fail = 1)

\* C2: a step taken for user x leaves what user y is returned, and all of
\* y's state those values are computed from, as they were.
UserView(bandits, log, y) ==
    << getUserBanditScores(bandits, y), topArms(bandits, y), getUserEvents(log, y),
       PendingOf(bandits, y) >>

ActsFor(x) ==
    \/ AnswerStart(x)
    \/ \E q \in DOMAIN requests, outcome \in {"complete", "error"} :
            requests[q].user = x /\ AnswerRank(q, outcome)
    \/ \E body \in ClientClicks(x) \cup PostedEvents(x) : PostEvent(body)
    \/ GetPreferences(x)
    \/ DeletePreferences(x)

C2_UsersIsolated ==
    [][\A x \in Users : \A y \in Users \ {x} :
            ActsFor(x) =>
                UserView(userBandits', eventLog', y) = UserView(userBandits, eventLog, y)]_vars

\* y has scores, events and pending impressions, and x has posted an event
\* after y's and has been shown sources too.
C2_Witness ==
    /\ getUserBanditScores(userBandits, "Y") # <<>>
    /\ PendingOf(userBandits, "X") # <<>>
    /\ \E i, j \in DOMAIN eventLog :
            i < j /\ eventLog[i].userId = "Y" /\ eventLog[j].userId = "X"

\* C3: the step of clearUserData(x) ends with x's scores empty, x's pending
\* list empty and getUserEvents(x) empty.
C3_ClearUserDataResets ==
    [][\A x \in Users :
            DeletePreferences(x) =>
                /\ getUserBanditScores(userBandits', x) = <<>>
                /\ PendingOf(userBandits', x) = <<>>
                /\ getUserEvents(eventLog', x) = <<>>]_vars

\* X was shown sources and clicked one (so X had arms, pending impressions and
\* an event), X's data was then cleared and is still empty, Y's event is kept.
C3_Witness ==
    /\ \E i \in DOMAIN ledger :
            ledger[i].user = "X" /\ ledger[i].cleared /\ ledger[i].succ >= 1
    /\ "X" \notin DOMAIN userBandits
    /\ getUserEvents(eventLog, "X") = <<>>
    /\ getUserEvents(eventLog, "Y") # <<>>

\* C9: every arm tracked or pending in any user's bandit is one of the 17
\* identifiers of the ContentFeatures vocabulary, and no bandit tracks more
\* than 17 arms.
C9_ArmsWithinVocabulary ==
    \A u \in DOMAIN userBandits :
        /\ \A a \in Tracked(userBandits[u]) : a \in ArmVocabulary
        /\ \A p \in Range(userBandits[u].pendingImpressions) :
                \A a \in Range(p.arms) : a \in ArmVocabulary
        /\ Len(userBandits[u].arms) <= Cardinality(ArmVocabulary)

\* C10: once a SOURCE_EXPANDED event with meta.allSourceFeatures is in the
\* log, every arm of every listed tuple is tracked by that user's bandit with
\* failures >= 1.
C10_ExpandedCountsFailures ==
    \A i \in DOMAIN eventLog :
        LET e == eventLog[i]
        IN e.eventType = "SOURCE_EXPANDED" =>
            \A f \in Range(e.meta.allSourceFeatures) :
                \A a \in Range(featuresToArms(f)) :
                    /\ e.userId \in DOMAIN userBandits
                    /\ HasArm(userBandits[e.userId].arms, a)
                    /\ getArmStats(userBandits[e.userId], a).failures >= 1

----------------------------------------------------------------------------
(* Claims about the events router (SpecEvents)                             *)

\* C11: a POST /api/events whose body fails the event validation is not
\* answered with a 4xx status.
C11_RejectedEventNot4xx ==
    (last.op = "postEvent" /\ ~UserEventSchemaOK(last.event)) =>
        last.status \notin 400..499

----------------------------------------------------------------------------
(* Claims about the answer stream (SpecAnswer)                             *)

Terminal == {"complete", "error"}

TerminalFrames == {i \in DOMAIN stream.frames : stream.frames[i] \in Terminal}

\* C12: a request's stream never holds more than one terminal frame
\* (complete or error), no frame follows a terminal frame, and the handler
\* has finished exactly when the one terminal frame is written.
C12_OneTerminalFrame ==
    /\ Cardinality(TerminalFrames) <= 1
    /\ \A i \in TerminalFrames : i = Len(stream.frames)
    /\ (stream.pc = "done") <=> (Cardinality(TerminalFrames) = 1)
    /\ stream.ended <=> (stream.pc = "done")

\* A stream that ended with complete after progress frames, and one that
\* ended with error, are both reached; this is the first.
C12_Witness ==
    /\ stream.pc = "done"
    /\ Len(stream.frames) >= 5
    /\ stream.frames[Len(stream.frames)] = "complete"
    /\ stream.attempt > 1

\* C13: once the client is gone, the handler starts no search, page fetch or
\* LLM call, writes no chunk and no complete frame.
C13_CancelStopsPipeline ==
    stream.cancelled =>
        stream.after \cap {"search", "fetch", "llm", "chunk", "complete"} = {}

----------------------------------------------------------------------------
(* Claims about executeParallelSearch, checked under SpecSearch             *)

SubQueries == 1..search.n
SomeFailed == \E i \in SubQueries : search.settled[i].status = "rejected"
SomeSucceeded == \E i \in SubQueries : search.settled[i].status = "fulfilled"
AllFailed == search.n > 0 /\ \A i \in SubQueries : search.settled[i].status = "rejected"

\* C14: when at least one but not all of the sub-query searches fail, the
\* search makes no call for the fallback query and returns hits found by
\* the sub-queries that succeeded.
C14_PartialFailureNoFallback ==
    (SomeFailed /\ SomeSucceeded) =>
        /\ search.fallbackCalls = 0
        /\ search.pc # "thrown"
        /\ search.pc = "returned" =>
              \A k \in DOMAIN search.result :
                  \E i \in SubQueries :
                      /\ search.settled[i].status = "fulfilled"
                      /\ search.result[k].sourceQuery = "sub-" \o ToString(i)

\* C15: when every sub-query search fails, the provider is called for the
\* fallback query exactly once, n + 1 times in total, and the hits of that
\* call are what the search returns.
C15_AllFailedOneFallback ==
    (AllFailed /\ search.pc \in {"fallback", "returned", "thrown"}) =>
        /\ search.fallbackCalls = 1
        /\ search.calls = search.n + 1
        /\ search.pc = "returned" =>
              /\ search.fallback.status = "fulfilled"
              /\ search.result = search.fallback.value
        /\ search.pc = "thrown" => search.fallback.status = "throws"

C15_Witness ==
    /\ search.pc = "returned"
    /\ search.n = MaxSubQueries
    /\ AllFailed
    /\ Len(search.result) >= MinResults

\* C16: the returned list never holds two hits whose URLs are equal after
\* normalization.
C16_NoDuplicateUrls ==
    search.pc = "returned" =>
        \A j, k \in DOMAIN search.result :
            j # k => normalizeUrl(search.result[j].url) # normalizeUrl(search.result[k].url)

NonWikipedia(results) == Len(filterWikipediaSources(results))

\* C17: the returned list holds a Wikipedia hit only when dropping the
\* Wikipedia hits would leave fewer than 5 hits.
C17_WikipediaOnlyWhenFew ==
    search.pc = "returned" =>
        (NonWikipedia(search.result) < Len(search.result)
            => NonWikipedia(search.result) < MinResults)

\* C18: two hits the provider gave have equal ids if and only if their URLs
\* are equal after normalization.
C18_IdIffNormalizedUrl ==
    \A g, h \in search.received :
        (g.id = h.id) <=> (normalizeUrl(g.url) = normalizeUrl(h.url))

----------------------------------------------------------------------------
(* Claims about createQueryPlan, checked under SpecPlan                     *)

\* callLLM failed: every attempt withRetry allows has thrown
CallFailed ==
    /\ Len(plan.outcomes) = MaxAttempts
    /\ \A i \in DOMAIN plan.outcomes : ~AttemptSucceeds(plan.outcomes[i])

\* C19: createQueryPlan never raises; the plan it returns holds 1 to 5
\* sub-queries, and when the LLM call failed or its output failed validation
\* the plan is the original query alone with strategy 'fallback'.
C19_PlanNeverRaises ==
    /\ plan.pc \in {"idle", "calling", "returned"}
    /\ plan.pc = "calling" => plan.attempt <= MaxAttempts
    /\ plan.pc = "returned" =>
          /\ Len(plan.result.subQueries) \in MinPlanSubQueries..MaxPlanSubQueries
          /\ plan.result.originalQuery = plan.query
          /\ CallFailed =>
                /\ plan.result.subQueries = <<plan.query>>
                /\ plan.result.strategy = "fallback"

C19_Witness ==
    /\ plan.pc = "returned"
    /\ CallFailed
    /\ plan.outcomes[1].kind = "throws"
    /\ plan.outcomes[2].kind = "unparsed"
    /\ Len(plan.outcomes[3].subQueries) = MaxLLMSubQueries
    /\ plan.result.strategy = "fallback"

----------------------------------------------------------------------------
(* Claim about applyPersonalization, checked under SpecPersonalize          *)

Personalized == last.op = "applyPersonalization"

\* C20: applyPersonalization multiplies no document's score by more than
\* 1.3: no personalized score exceeds 1.3 times the score the document had.
C20_MultiplierAtMostCap ==
    Personalized =>
        \A i \in DOMAIN last.ret :
            ~RatioGreater(last.ret[i].score,
                          RatioMul(RankedScore(last.ret[i].id), <<MaxMultiplier, 10>>))

C20_Witness ==
    /\ Personalized
    /\ Len(last.ret) = 3
    /\ \E i \in DOMAIN last.ret :
          RatioGreater(last.ret[i].score,
                       RatioMul(RankedScore(last.ret[i].id), <<11, 10>>))
    /\ \E i \in DOMAIN last.ret : last.ret[i].score = RankedScore(last.ret[i].id)

\* C21: personalization is a no-op for the document of a page whose feature
\* tagging failed: its score after applyPersonalization is the score it had.
C21_TaggingFailureNotBoosted ==
    Personalized =>
        \A i \in DOMAIN last.ret :
            last.ret[i].id = TaggingFailedDoc.id
                => last.ret[i].score = RankedScore(last.ret[i].id)

----------------------------------------------------------------------------
(* Claims about synthesizeAnswer, checked under SpecSynth                   *)

InRange(index) == index >= 1 /\ index <= synth.sources

CitedInRaw == Range(extractCitationIndices(synth.fullContent))

\* C22: the text of the returned packet holds no bracketed citation, single
\* or list, with an index outside 1..|sources|, and citations[] holds no
\* such index.
C22_NoInvalidCitationLeft ==
    synth.pc = "returned" =>
        /\ \A index \in Range(extractCitationIndices(synth.text)) : InRange(index)
        /\ \A k \in DOMAIN synth.citations : InRange(synth.citations[k].index)

\* C23: every in-range index cited in the generated text has exactly one
\* entry in citations[], with the id of the source at that index, and
\* citations[] holds only in-range indices.
C23_CitationsMatchSources ==
    synth.pc = "returned" =>
        /\ \A index \in CitedInRaw :
              InRange(index) =>
                  \E k \in DOMAIN synth.citations :
                      /\ synth.citations[k].index = index
                      /\ synth.citations[k].sourceId = SourcesOf(synth.sources)[index].id
        /\ \A k \in DOMAIN synth.citations :
              /\ InRange(synth.citations[k].index)
              /\ synth.citations[k].sourceId
                    = SourcesOf(synth.sources)[synth.citations[k].index].id
        /\ \A j, k \in DOMAIN synth.citations :
              synth.citations[j].index = synth.citations[k].index => j = k

C23_Witness ==
    /\ synth.pc = "returned"
    /\ synth.sources = 2
    /\ synth.attempt = 2
    /\ synth.fullContent
          = <<"[", "1", "]", "[", "2", ",", " ", "9", "]", "[", "1", "]">>
    /\ Len(synth.citations) = 2

----------------------------------------------------------------------------
(* Claims about the phases of the answer route, checked under SpecAnswer    *)

EndedWithError ==
    stream.pc = "done" /\ stream.frames[Len(stream.frames)] = "error"

\* C24: a request with a valid body ends with an error frame only when the
\* search threw (every sub-query search and the fallback search failed) or
\* when the synthesis LLM call failed after its retries.
C24_OnlyTotalLossIsFatal ==
    (EndedWithError /\ stream.cause # "body") => stream.cause \in {"search", "synthesis"}

----------------------------------------------------------------------------
(* Claims about the answer route and the user's bandit (Spec)               *)

\* the impression is charged as a failure and leaves the pending list in
\* this step
ChargedAndRemoved(u, imp) ==
    /\ \A k \in DOMAIN PendingOf(userBandits', u) :
            PendingOf(userBandits', u)[k] # imp
    /\ \A a \in Range(imp.arms) :
            Failures(userBandits'[u], a)
                >= Failures(userBandits[u], a) + Fraction(Len(imp.arms))

\* the source of the impression has been clicked since it was shown
Clicked(u, imp) ==
    \E i \in DOMAIN ledger :
        /\ ledger[i].user = u
        /\ ledger[i].queryId = imp.queryId
        /\ ledger[i].url = imp.sourceId
        /\ ledger[i].succ > 0

\* C25: the start of an answer request of a user charges every impression
\* recorded by the user's earlier request and not clicked since as a failure
\* (1/|arms| per arm) and removes it from the pending list.
C25_PendingResolvedAtStart ==
    [][\A u \in Users :
            AnswerStart(u) =>
                \A k \in DOMAIN PendingOf(userBandits, u) :
                    ~Clicked(u, PendingOf(userBandits, u)[k])
                        => ChargedAndRemoved(u, PendingOf(userBandits, u)[k])]_vars

\* the user's bandit, a new one for a user without one
BanditOf(bandits, u) == getUserBandit(bandits, u)[u]

\* C26: while a request of a user is between the resolution of the pending
\* impressions at its start and its read of the user's scores, no step of
\* another request or event changes that user's bandit.
C26_ResolveAndReadAtomic ==
    [][\A q \in DOMAIN requests :
            (/\ requests[q].user \in Users
             /\ requests[q].pc = "planning"
             /\ requests'[q].pc = "planning")
                => BanditOf(userBandits', requests[q].user)
                        = BanditOf(userBandits, requests[q].user)]_vars

----------------------------------------------------------------------------
(* Claims about the batches and the merge of executeParallelSearch          *)

\* C27: at no time are more than 5 provider searches started by the call
\* in flight.
C27_AtMostFiveInFlight ==
    Cardinality(search.inFlight) <= MAX_CONCURRENT_SEARCHES

\* C28: the search never returns more than 20 hits.
C28_AtMostTwentyReturned ==
    search.pc = "returned" => Len(search.result) <= MaxReturned

\* the merge of three result lists was longer than what is returned
C28_Witness ==
    /\ search.pc = "returned"
    /\ search.fallbackCalls = 0
    /\ Len(search.allResults) = 3
    /\ Len(search.finalResults) > MaxReturned
    /\ Len(search.result) = MaxReturned

\* the lists interleaveResults was called with
Interleaved == dedupedByQuery(search.allResults)

\* where a hit of the output stands in the lists: <<sub-query, rank>>
PlaceOf(lists, hit) ==
    CHOOSE place \in {<<q, k>> : q \in DOMAIN lists, k \in 1..MAX_RESULTS_PER_QUERY} :
        /\ place[2] <= Len(lists[place[1]])
        /\ lists[place[1]][place[2]] = hit

\* hits of a sub-query that belong to the first pass
FirstPassOf(q) == IF q <= 2 THEN 3 ELSE 2

\* the pass a hit is taken in: the first pass is pass 0
PassOf(place) ==
    IF place[2] <= FirstPassOf(place[1]) THEN 0 ELSE place[2] - FirstPassOf(place[1])

\* a hit is taken before another one: in an earlier pass, or in the same
\* pass from an earlier sub-query, or from the same sub-query at a better rank
TakenBefore(p1, p2) ==
    \/ PassOf(p1) < PassOf(p2)
    \/ PassOf(p1) = PassOf(p2) /\ p1[1] < p2[1]
    \/ PassOf(p1) = PassOf(p2) /\ p1[1] = p2[1] /\ p1[2] < p2[2]

\* C30: the interleaved list holds every hit of every sub-query list
\* exactly once, and its order is: first pass (top 3 of the first two
\* sub-queries, top 2 of the others, in sub-query order), then one hit per
\* sub-query per pass; hits of one sub-query keep their order.
C30_InterleaveIsOrderedPermutation ==
    Len(search.allResults) > 1 /\ search.pc \in {"fallback", "returned", "thrown"} =>
        LET lists == Interleaved
            output == search.interleaved
        IN /\ \A q \in DOMAIN lists : Range(lists[q]) \subseteq Range(output)
           /\ Range(output) \subseteq UNION {Range(lists[q]) : q \in DOMAIN lists}
           /\ \A i \in 1..(Len(output) - 1) :
                TakenBefore(PlaceOf(lists, output[i]), PlaceOf(lists, output[i + 1]))

\* three lists were interleaved, with hits left for the later passes
C30_Witness ==
    /\ search.pc = "returned"
    /\ Len(search.allResults) = 3
    /\ Len(Interleaved[1]) > 3
    /\ Len(Interleaved[2]) < 3
    /\ Len(Interleaved[3]) > 3
    /\ Len(search.interleaved) = Len(Interleaved[1]) + Len(Interleaved[2]) + Len(Interleaved[3])

----------------------------------------------------------------------------
(* SpecRetry: one LLM call through withRetry (llm.ts)                        *)

\* the three wrappers that run their request through withRetry
LLMCalls == {"callLLM", "generateCompletion", "generateStreamingCompletion"}

\* What one request to the model can come to: the client throws, or the
\* response carries a content, which can be empty.
LLMResponses ==
    { [status |-> "throws", value |-> "rate limit"],
      [status |-> "throws", value |-> "connection error"],
      [status |-> "content", value |-> ""],
      [status |-> "content", value |-> "first text"],
      [status |-> "content", value |-> "second text"] }

\* fn: the body every wrapper hands to withRetry
fn(call, response) ==
    IF response.status = "throws"
    THEN [status |-> "rejected", value |-> response.value]
    ELSE IF response.value = ""
    THEN [status |-> "rejected",
          value |-> IF call = "callLLM" THEN "Failed to parse LLM response"
                    ELSE "Empty response from LLM"]
    ELSE [status |-> "fulfilled", value |-> response.value]

delays == <<1000, 2000, 4000>>

\* Variant: the last attempt is recognised one attempt late.
isLastAttemptLate(attempt) == attempt = MaxAttempts

\* const isLastAttempt = attempt === maxAttempts - 1
isLastAttempt(attempt) == attempt = MaxAttempts - 1

RetryStart(call) ==
    /\ retry.pc = "idle"
    /\ retry' = IF 0 < MaxAttempts
                THEN [retry EXCEPT !.pc = "attempting", !.call = call]
                ELSE [retry EXCEPT !.pc = "thrown", !.call = call,
                                   !.result = [status |-> "rejected", value |-> "Retry logic error"]]
    /\ UNCHANGED store
    /\ UNCHANGED <<stream, search, plan, synth>>

\* await fn() settles: return its value, or throw after the last attempt,
\* or sleep(delays[attempt])
RetryAttemptSettled(response) ==
    /\ retry.pc = "attempting"
    /\ LET outcome == fn(retry.call, response)
           tried == [retry EXCEPT !.outcomes = Append(@, outcome)]
       IN retry' =
            IF outcome.status = "fulfilled"
            THEN [tried EXCEPT !.pc = "returned", !.result = outcome]
            ELSE IF isLastAttempt(retry.attempt)
            THEN [tried EXCEPT
                    !.pc = "thrown",
                    !.result = [status |-> "rejected",
                                value |-> "LLM request failed: " \o outcome.value]]
            ELSE [tried EXCEPT !.pc = "sleeping",
                               !.slept = Append(@, delays[retry.attempt + 1])]
    /\ UNCHANGED store
    /\ UNCHANGED <<stream, search, plan, synth>>

\* the timer of sleep fires: attempt++ and the loop condition
RetrySleepDone ==
    /\ retry.pc = "sleeping"
    /\ retry' = IF retry.attempt + 1 < MaxAttempts
                THEN [retry EXCEPT !.pc = "attempting", !.attempt = @ + 1]
                ELSE [retry EXCEPT !.pc = "thrown", !.attempt = @ + 1,
                                   !.result = [status |-> "rejected", value |-> "Retry logic error"]]
    /\ UNCHANGED store
    /\ UNCHANGED <<stream, search, plan, synth>>

NextRetry ==
    \/ \E call \in LLMCalls : RetryStart(call)
    \/ \E response \in LLMResponses : RetryAttemptSettled(response)
    \/ RetrySleepDone

\* every request settles and every timer fires
SpecRetry ==
    /\ Init
    /\ [][NextRetry]_vars
    /\ WF_vars(\E response \in LLMResponses : RetryAttemptSettled(response))
    /\ WF_vars(RetrySleepDone)

----------------------------------------------------------------------------
(* Claims about withRetry                                                   *)

RetryFinished == retry.pc \in {"returned", "thrown"}

AttemptsBounded ==
    /\ Len(retry.outcomes) <= MaxAttempts
    /\ \A k \in 1..(Len(retry.outcomes) - 1) : retry.outcomes[k].status = "rejected"

BackoffInOrder ==
    /\ retry.slept = SubSeq(delays, 1, Len(retry.slept))
    /\ retry.pc = "attempting" => Len(retry.slept) = Len(retry.outcomes)
    /\ RetryFinished => Len(retry.slept) = Len(retry.outcomes) - 1

FirstSuccessReturned ==
    retry.pc = "returned" =>
        /\ retry.outcomes[Len(retry.outcomes)].status = "fulfilled"
        /\ retry.result = retry.outcomes[Len(retry.outcomes)]

FailsAfterThird ==
    retry.pc = "thrown" =>
        /\ Len(retry.outcomes) = MaxAttempts
        /\ retry.outcomes[MaxAttempts].status = "rejected"
        /\ retry.result.status = "rejected"
        /\ retry.result.value = "LLM request failed: " \o retry.outcomes[MaxAttempts].value

\* C29: an LLM call makes at most 3 attempts, sleeps 1 s then 2 s between
\* them, returns the result of the first attempt that succeeds, fails after
\* the third failed attempt, and always comes to an end.
C29_RetryBoundedWithBackoff ==
    /\ [](AttemptsBounded /\ BackoffInOrder /\ FirstSuccessReturned /\ FailsAfterThird)
    /\ (retry.pc = "attempting" ~> RetryFinished)

\* the third attempt was made after both delays, and succeeded
C29_Witness ==
    /\ retry.pc = "returned"
    /\ Len(retry.outcomes) = MaxAttempts
    /\ retry.slept = <<1000, 2000>>
    /\ retry.result.status = "fulfilled"

====
